---- MODULE Spec2Model ----
(***************************************************************************)
(* A model of gidgetlab: the sans-I/O response decoder (sansio.py), the    *)
(* request/cache orchestrator (abc.py), the webhook event router           *)
(* (routing.py) and the webhook receiver (aiohttp.py).                     *)
(*                                                                         *)
(* Representation of Python values                                         *)
(*   Optional[X]      None is << >>, a present value x is <<x>>            *)
(*   JSON value       a tagged tuple: <<"null">>, <<"int", n>>,            *)
(*                    <<"str", s>>, <<"list", seq>>, <<"obj", f>> where f  *)
(*                    maps the object's keys to JSON values                *)
(*   bytes body       <<"empty">> for b"", <<"json", v>> for the UTF-8     *)
(*                    JSON text of v, <<"text", s>> for bytes that are no  *)
(*                    JSON text                                            *)
(*   header mapping   a function whose DOMAIN is the set of header names   *)
(*                    present; numeric header texts are the numbers that   *)
(*                    int()/float() read from them                         *)
(*   str of a body    <<"rawtext", body>>: the decoded text of a non-empty  *)
(*                    body of an unrecognized content type                 *)
(*   URL              a record [host, lead, path, query]: host "" for a    *)
(*                    relative URL, lead for a leading slash, path a       *)
(*                    sequence of segments, query a function from the      *)
(*                    parameter names present to their values              *)
(***************************************************************************)
EXTENDS Integers, Sequences, FiniteSets, TLC

VARIABLES
    now,          \* the UTC clock read by RateLimit.__bool__
    resp,         \* sansio: the response handed to decipher_response
    out,          \* sansio: what decipher_response did with it (None before)
    shallow_routes, \* routing: Router._shallow_routes, event type -> callbacks
    deep_routes,  \* routing: Router._deep_routes, event type -> the ordered
                  \*   entries [key, values], values: data value -> callbacks
    dispatch,     \* routing: the dispatch call in progress or just ended
    registered,   \* routing: how many times Router.add was called
    added,        \* routing: the last call of Router.add and how it ended
    others,       \* routing: the tables of the routers a router is built from
    built,        \* routing: the other_routers Router(...) was called with,
                  \*   as positions in others (empty before the call)
    client,       \* abc: GitLabAPI.requester and GitLabAPI.access_token
    cache,        \* abc: GitLabAPI._cache, None or <<the mapping url -> entry>>
    rate_limit,   \* abc: GitLabAPI.rate_limit
    frame,        \* abc: per task, the call of a verb in progress or just ended
    ncalls,       \* abc: how many verbs were called
    server,       \* the GitLab server behind the transport: its pages
    hook,         \* sansio: the webhook request handed to Event.from_http
                  \*   and the secret configured
    produced,     \* sansio: what Event.from_http did with it (None before)
    bot,          \* aiohttp: the call of GitLabBot.webhook_handler in progress
                  \*   or just ended, and the response it returned
    supplied      \* aiohttp: the cache argument of GitLabBot(...): whether one
                  \*   was given, whether bot.cache is that object, and what
                  \*   the object holds while it is another one

decVars == <<now, resp, out>>
rtVars == <<shallow_routes, deep_routes, dispatch, registered, added, others, built>>
clVars == <<client, cache, rate_limit, frame, ncalls, server>>
evVars == <<hook, produced, bot, supplied>>
vars == <<now, resp, out, shallow_routes, deep_routes, dispatch, registered,
          added, others, built,
          client, cache, rate_limit, frame, ncalls, server, hook, produced, bot,
          supplied>>

-----------------------------------------------------------------------------
(* Bounds of the model *)

\* The clock and the reset instants range over 0..MaxTime.
MaxTime == 2

\* Router.add is called at most MaxAdds times.
MaxAdds == 3

\* At most MaxCalls verbs are called on the client.
MaxCalls == 2

\* The server holds at most MaxPages pages of at most MaxPageSize items.
MaxPages == 2
MaxPageSize == 2

\* One getiter call makes at most MaxExchanges exchanges.
MaxExchanges == 3

\* A link header has at most MaxEntries entries.
MaxEntries == 3

-----------------------------------------------------------------------------
(* Python values *)

None == << >>
Some(x) == <<x>>
IsNone(o) == o = << >>

JNull == <<"null">>
JInt(n) == <<"int", n>>
JStr(s) == <<"str", s>>
JList(l) == <<"list", l>>
JObj(f) == <<"obj", f>>

\* The empty mapping {} (a function with no key).
EmptyMap == << >>

\* bool(v) of a decoded value.
Truthy(v) ==
    CASE v[1] = "null" -> FALSE
      [] v[1] = "int" -> v[2] # 0
      [] v[1] = "str" -> v[2] # ""
      [] v[1] = "list" -> Len(v[2]) > 0
      [] v[1] = "obj" -> DOMAIN v[2] # {}
      [] v[1] = "rawtext" -> TRUE

\* mapping.get(key): None when the key is missing.
Get(h, key) == IF key \in DOMAIN h THEN Some(h[key]) ELSE None

-----------------------------------------------------------------------------
(* sansio.py: the response decoder *)

\* _parse_content_type: the media type of a content-type header, None when
\* the header is missing or empty.  A header is [type, charset].
parse_content_type(content_type) ==
    IF IsNone(content_type) \/ content_type[1].type = ""
    THEN None
    ELSE Some(content_type[1].type)

\* _decode_body with strict = False and with strict = TRUE.  The result is
\* [raised, value]: raised names the exception that left the function ("" for
\* none), value is the decoded body (JNull for Python's None).
decode_body(content_type, body, strict) ==
    LET type_ == parse_content_type(content_type)
    IN  IF body[1] = "empty" \/ IsNone(content_type) \/ content_type[1].type = ""
        THEN [raised |-> "", value |-> JNull]
        ELSE IF type_[1] = "application/json"
        THEN IF body[1] = "json"
             THEN [raised |-> "", value |-> body[2]]
             ELSE [raised |-> "JSONDecodeError", value |-> JNull]
        ELSE IF type_[1] = "application/x-www-form-urlencoded"
        THEN IF body[1] = "form"
             THEN [raised |-> "", value |-> body[2]]
             ELSE [raised |-> "KeyError", value |-> JNull]
        ELSE IF strict
        THEN [raised |-> "ValueError", value |-> JNull]
        ELSE [raised |-> "", value |-> <<"rawtext", body>>]

\* RateLimit.__init__: the snapshot.
RateLimit(limit, remaining, reset_epoch) ==
    [limit |-> limit, remaining |-> remaining, reset_datetime |-> reset_epoch]

\* A __bool__ that takes the quota for refreshed at the reset instant itself.
RateLimitBoolAtReset(rl, t) ==
    IF rl.remaining > 0
    THEN TRUE
    ELSE t >= rl.reset_datetime

\* RateLimit.__bool__ evaluated when the clock shows t.
RateLimitBool(rl, t) ==
    IF rl.remaining > 0
    THEN TRUE
    ELSE t > rl.reset_datetime

\* A from_http that makes do without the reset header.
RateLimitFromHttpLenient(headers) ==
    IF {"ratelimit-limit", "ratelimit-remaining"} \subseteq DOMAIN headers
    THEN Some(RateLimit(headers["ratelimit-limit"],
                        headers["ratelimit-remaining"],
                        IF "ratelimit-reset" \in DOMAIN headers
                        THEN headers["ratelimit-reset"] ELSE 0))
    ELSE None

\* RateLimit.from_http: None unless the three headers are there.
RateLimitFromHttp(headers) ==
    IF {"ratelimit-limit", "ratelimit-remaining", "ratelimit-reset"} \subseteq DOMAIN headers
    THEN Some(RateLimit(headers["ratelimit-limit"],
                        headers["ratelimit-remaining"],
                        headers["ratelimit-reset"]))
    ELSE None

\* _next_link: the uri of the first entry with rel="next".  A link header is
\* the sequence of its entries [uri, param_type, param_value].
RECURSIVE NextLinkFrom(_, _)
\* A loop that takes the first entry of value "next" whatever the name of its
\* parameter.
NextLinkFromAnyParam(link, i) ==
    IF i > Len(link)
    THEN None
    ELSE IF link[i].param_value = "next"
    THEN Some(link[i].uri)
    ELSE NextLinkFrom(link, i + 1)

NextLinkFrom(link, i) ==
    IF i > Len(link)
    THEN None
    ELSE IF link[i].param_type = "rel" /\ link[i].param_value = "next"
    THEN Some(link[i].uri)
    ELSE NextLinkFrom(link, i + 1)

next_link(link) == IF IsNone(link) THEN None ELSE NextLinkFrom(link[1], 1)

\* The text of a link header is the sequence of its tokens: <<"<">>, <<">">>,
\* <<";">>, <<" ">>, <<"=">>, <<"q">> for the double quote, <<",">>,
\* <<"w", word>> for a run of word characters and <<"uri", u>> for the text
\* of the url u.

\* "\s*" from position i of the text: the position after the spaces.
RECURSIVE SkipSpaces(_, _)
SkipSpaces(s, i) ==
    IF i <= Len(s) /\ s[i][1] = " " THEN SkipSpaces(s, i + 1) ELSE i

\* "[^>]+" from position i: the position of the first ">" at or after i,
\* Len(s) + 1 when there is none.
RECURSIVE UriEnd(_, _)
UriEnd(s, i) ==
    IF i > Len(s) \/ s[i][1] = ">" THEN i ELSE UriEnd(s, i + 1)

\* The token at position i of the text has the kind given.
TokenIs(s, i, kind) == i <= Len(s) /\ s[i][1] = kind

\* _link_re matched at position i of the text: whether it matches, its three
\* groups and the position after the match.
LinkMatchAt(s, i) ==
    LET u == UriEnd(s, i + 1)
        a == SkipSpaces(s, u + 2)
        e == a + 5
        ok == /\ TokenIs(s, i, "<")
              /\ u > i + 1
              /\ TokenIs(s, u, ">")
              /\ TokenIs(s, u + 1, ";")
              /\ TokenIs(s, a, "w")
              /\ TokenIs(s, a + 1, "=")
              /\ TokenIs(s, a + 2, "q")
              /\ TokenIs(s, a + 3, "w")
              /\ TokenIs(s, a + 4, "q")
    IN  IF ok
        THEN [ok |-> TRUE,
              uri |-> IF u = i + 2 /\ s[i + 1][1] = "uri" THEN s[i + 1][2]
                      ELSE <<"text", SubSeq(s, i + 1, u - 1)>>,
              param_type |-> s[a][2],
              param_value |-> s[a + 3][2],
              next |-> IF TokenIs(s, e, ",") THEN SkipSpaces(s, e + 1) ELSE e]
        ELSE [ok |-> FALSE, uri |-> << >>, param_type |-> "", param_value |-> "",
              next |-> i + 1]

\* _link_re.finditer(link) from position i: the matches, left to right.
RECURSIVE link_re_finditer(_, _)
link_re_finditer(s, i) ==
    IF i > Len(s)
    THEN << >>
    ELSE LET m == LinkMatchAt(s, i)
         IN  IF m.ok
             THEN <<[uri |-> m.uri, param_type |-> m.param_type,
                     param_value |-> m.param_value]>> \o link_re_finditer(s, m.next)
             ELSE link_re_finditer(s, i + 1)

\* _next_link on the text of the header, None for a missing header.
next_link_of_text(link) ==
    IF IsNone(link) THEN None ELSE NextLinkFrom(link_re_finditer(link[1], 1), 1)

\* http.HTTPStatus(status).phrase, the message of an exception raised
\* without one.
Phrase(status) == <<"phrase", status>>

\* data["message"] guarded by except (TypeError, KeyError).
MessageOf(data) ==
    IF data[1] = "obj" /\ "message" \in DOMAIN data[2]
    THEN Some(data[2]["message"])
    ELSE None

\* The result of decipher_response: a returned triple or a raised exception.
Returned(data, rl, more) ==
    [kind |-> "return", data |-> data, rate_limit |-> rl, more |-> more,
     exc |-> "", status |-> 0, args |-> << >>, errors |-> None]

\* exc_type(*args) of the HTTPException family: status is self.status_code,
\* args what reaches Exception.__init__ (so str(exc) when there is one).
Raised(exc, status, args, rl, errors) ==
    [kind |-> "raise", data |-> JNull, rate_limit |-> rl, more |-> None,
     exc |-> exc, status |-> status, args |-> args, errors |-> errors]

\* An exception that is no HTTPException (raised by the decoding itself).
RaisedOther(exc) == Raised(exc, 0, << >>, None, None)

\* HTTPException.__init__: the status phrase stands in for missing args.
HTTPExceptionInit(exc, status, args, rl, errors) ==
    Raised(exc, status, IF args = << >> THEN <<Phrase(status)>> ELSE args,
           rl, errors)

\* The values of the enum http.HTTPStatus.
HTTPStatusCodes ==
    {100, 101, 102, 103, 200, 201, 202, 203, 204, 205, 206, 207, 208, 226,
     300, 301, 302, 303, 304, 305, 307, 308,
     400, 401, 402, 403, 404, 405, 406, 407, 408, 409, 410, 411, 412, 413, 414,
     415, 416, 417, 418, 421, 422, 423, 424, 425, 426, 428, 429, 431, 451,
     500, 501, 502, 503, 504, 505, 506, 507, 508, 510, 511}

\* The end of decipher_response: "status_code_enum = http.HTTPStatus(
\* status_code)", which raises ValueError for a number that is no member of
\* the enum, then "raise exc_type(*args)".
RaiseHTTP(exc, status_code, args) ==
    IF status_code \in HTTPStatusCodes
    THEN HTTPExceptionInit(exc, status_code, args, None, None)
    ELSE RaisedOther("ValueError")

\* The 403 test of decipher_response: "rate_limit and not
\* rate_limit.remaining", the first operand being RateLimit.__bool__.
RateLimitExhausted(rl, t) ==
    /\ ~IsNone(rl)
    /\ RateLimitBool(rl[1], t)
    /\ rl[1].remaining = 0

\* repr(e["field"]) for e in errors, joined.
FieldsOf(errors) == [i \in 1..Len(errors) |-> errors[i][2]["field"]]

\* The 422 branch of decipher_response.
Decipher422(data, message) ==
    IF data[1] # "obj"
    THEN RaisedOther("AttributeError")
    ELSE LET errors == Get(data[2], "errors")
         IN  IF ~IsNone(errors) /\ Truthy(errors[1])
             THEN HTTPExceptionInit("InvalidField", 422,
                      <<<<"for", message, FieldsOf(errors[1][2])>>>>, None, errors)
             ELSE IF "message" \in DOMAIN data[2]
             THEN HTTPExceptionInit("InvalidField", 422, <<data[2]["message"]>>,
                                    None, errors)
             ELSE RaisedOther("KeyError")

\* decipher_response(status_code, headers, body) when the clock shows t.
decipher_response(status_code, headers, body, t) ==
    LET decoded == decode_body(Get(headers, "content-type"), body, FALSE)
        data == decoded.value
        message == MessageOf(data)
        args == IF ~IsNone(message) /\ Truthy(message[1]) THEN message ELSE << >>
    IN  IF decoded.raised # ""
        THEN RaisedOther(decoded.raised)
        ELSE IF status_code \in {200, 201, 202, 204}
        THEN Returned(data, RateLimitFromHttp(headers), next_link(Get(headers, "link")))
        ELSE IF status_code >= 500
        THEN RaiseHTTP("GitLabBroken", status_code, args)
        ELSE IF status_code >= 400
        THEN IF status_code = 403 /\ RateLimitExhausted(RateLimitFromHttp(headers), t)
             THEN HTTPExceptionInit("RateLimitExceeded", 403,
                      <<IF IsNone(message) THEN JNull ELSE message[1]>>,
                      RateLimitFromHttp(headers), None)
             ELSE IF status_code = 422
             THEN Decipher422(data, message)
             ELSE RaiseHTTP("BadRequest", status_code, args)
        ELSE IF status_code >= 300
        THEN RaiseHTTP("RedirectionException", status_code, args)
        ELSE RaiseHTTP("HTTPException", status_code, args)

-----------------------------------------------------------------------------
(* sansio.py: the webhook event *)

\* Event.__init__: the event from_http returns.
Event(data, event_type, secret) ==
    [kind |-> "event", data |-> data, event |-> event_type, secret |-> secret]

\* raise ValidationFailure(message).
ValidationFailure(message) == Raised("ValidationFailure", 0, <<message>>, None, None)

\* raise BadRequest(http.HTTPStatus(415), "expected a content-type of ...").
UnsupportedMediaType ==
    HTTPExceptionInit("BadRequest", 415,
        <<"expected a content-type of 'application/json' or 'application/x-www-form-urlencoded'">>,
        None, None)

\* An Event.from_http that accepts a request without token whatever the
\* secret configured.
from_http_token_optional(headers, body, secret) ==
    IF "x-gitlab-token" \in DOMAIN headers /\ IsNone(secret)
    THEN ValidationFailure("secret not provided")
    ELSE IF "x-gitlab-token" \in DOMAIN headers /\ headers["x-gitlab-token"] # secret[1]
    THEN ValidationFailure("invalid secret")
    ELSE IF "content-type" \notin DOMAIN headers
    THEN UnsupportedMediaType
    ELSE LET decoded == decode_body(Some(headers["content-type"]), body, TRUE)
         IN  IF decoded.raised \in {"KeyError", "ValueError", "JSONDecodeError"}
             THEN UnsupportedMediaType
             ELSE IF "x-gitlab-event" \notin DOMAIN headers
             THEN RaisedOther("KeyError")
             ELSE Event(decoded.value, headers["x-gitlab-event"], secret)

\* An Event.from_http that decodes the body before it validates the token.
from_http_decodes_first(headers, body, secret) ==
    IF "content-type" \notin DOMAIN headers
    THEN UnsupportedMediaType
    ELSE LET decoded == decode_body(Some(headers["content-type"]), body, TRUE)
         IN  IF decoded.raised \in {"KeyError", "ValueError", "JSONDecodeError"}
             THEN UnsupportedMediaType
             ELSE IF "x-gitlab-token" \in DOMAIN headers /\ IsNone(secret)
             THEN ValidationFailure("secret not provided")
             ELSE IF "x-gitlab-token" \in DOMAIN headers
                     /\ headers["x-gitlab-token"] # secret[1]
             THEN ValidationFailure("invalid secret")
             ELSE IF "x-gitlab-token" \notin DOMAIN headers /\ ~IsNone(secret)
             THEN ValidationFailure("x-gitlab-token is missing")
             ELSE IF "x-gitlab-event" \notin DOMAIN headers
             THEN RaisedOther("KeyError")
             ELSE Event(decoded.value, headers["x-gitlab-event"], secret)

\* Event.from_http(headers, body, secret=secret).  json.JSONDecodeError is a
\* ValueError, so "except (KeyError, ValueError)" catches the three failures
\* of _decode_body; the KeyError of a missing x-gitlab-event is raised outside
\* the try.
from_http(headers, body, secret) ==
    IF "x-gitlab-token" \in DOMAIN headers /\ IsNone(secret)
    THEN ValidationFailure("secret not provided")
    ELSE IF "x-gitlab-token" \in DOMAIN headers /\ headers["x-gitlab-token"] # secret[1]
    THEN ValidationFailure("invalid secret")
    ELSE IF "x-gitlab-token" \notin DOMAIN headers /\ ~IsNone(secret)
    THEN ValidationFailure("x-gitlab-token is missing")
    ELSE IF "content-type" \notin DOMAIN headers
    THEN UnsupportedMediaType
    ELSE LET decoded == decode_body(Some(headers["content-type"]), body, TRUE)
         IN  IF decoded.raised \in {"KeyError", "ValueError", "JSONDecodeError"}
             THEN UnsupportedMediaType
             ELSE IF "x-gitlab-event" \notin DOMAIN headers
             THEN RaisedOther("KeyError")
             ELSE Event(decoded.value, headers["x-gitlab-event"], secret)

\* No webhook request was received.
NoHook == [headers |-> EmptyMap, body |-> <<"empty">>, secret |-> None]

\* webhook_handler was not called yet.
NoRequest == [pc |-> "idle", status |-> 0, propagated |-> ""]

\* No bot was made: no cache argument to speak of.
NoSupplied == [given |-> FALSE, used |-> FALSE, apart |-> EmptyMap]

\* The webhook variables while another component is looked at.
EventIdle ==
    /\ hook = NoHook
    /\ produced = None
    /\ bot = NoRequest
    /\ supplied = NoSupplied

-----------------------------------------------------------------------------
(* routing.py: the event router *)

\* Router.__init__: the empty tables.
EmptyRouter == [shallow |-> EmptyMap, deep |-> EmptyMap]

\* dict.setdefault(key, default) followed by the use of the entry.
SetDefault(f, key, default) == IF key \in DOMAIN f THEN f ELSE (key :> default) @@ f

\* The position of data_key among the ordered entries of one event type, 0
\* when it has none.
KeyIndex(entries, data_key) ==
    IF \E i \in 1..Len(entries) : entries[i].key = data_key
    THEN CHOOSE i \in 1..Len(entries) : entries[i].key = data_key
    ELSE 0

\* The deep branch of Router.add: the three setdefault calls and the append.
AddDeep(deep, func, event_type, data_key, data_value) ==
    LET object_attributes == SetDefault(deep, event_type, << >>)[event_type]
        at == KeyIndex(object_attributes, data_key)
        specific_detail == IF at = 0 THEN EmptyMap ELSE object_attributes[at].values
        callbacks == SetDefault(specific_detail, data_value, << >>)[data_value]
        detail == (data_value :> Append(callbacks, func)) @@ specific_detail
        entry == [key |-> data_key, values |-> detail]
    IN  (event_type :> IF at = 0
                       THEN Append(object_attributes, entry)
                       ELSE [object_attributes EXCEPT ![at] = entry]) @@ deep

\* The shallow branch of Router.add.
AddShallow(shallow, func, event_type) ==
    (event_type :> Append(SetDefault(shallow, event_type, << >>)[event_type], func))
        @@ shallow

\* A Router.add that registers under the first of several keyword arguments.
RouterAddFirstAttribute(shallow, deep, func, event_type, object_attribute) ==
    IF Len(object_attribute) = 0
    THEN [raised |-> "", shallow |-> AddShallow(shallow, func, event_type), deep |-> deep]
    ELSE [raised |-> IF Len(object_attribute) > 1 THEN "TypeError" ELSE "",
          shallow |-> shallow,
          deep |-> AddDeep(deep, func, event_type,
                           object_attribute[1][1], object_attribute[1][2])]

\* Router.add(func, event_type, **object_attribute); object_attribute is the
\* sequence of the keyword arguments <<key, value>>.
RouterAdd(shallow, deep, func, event_type, object_attribute) ==
    IF Len(object_attribute) > 1
    THEN [raised |-> "TypeError", shallow |-> shallow, deep |-> deep]
    ELSE IF Len(object_attribute) = 0
    THEN [raised |-> "", shallow |-> AddShallow(shallow, func, event_type), deep |-> deep]
    ELSE [raised |-> "", shallow |-> shallow,
          deep |-> AddDeep(deep, func, event_type,
                           object_attribute[1][1], object_attribute[1][2])]

\* "for callback in callbacks: self.add(callback, event_type, **detail)" of
\* Router.__init__, from the i-th callback on; r holds the tables of self.
RECURSIVE AddEach(_, _, _, _, _)
AddEach(r, callbacks, i, event_type, detail) ==
    IF i > Len(callbacks)
    THEN r
    ELSE LET a == RouterAdd(r.shallow, r.deep, callbacks[i], event_type, detail)
         IN  AddEach([shallow |-> a.shallow, deep |-> a.deep], callbacks, i + 1,
                     event_type, detail)

\* The loop over other_router._shallow_routes.items(); types are the event
\* types still to visit.
RECURSIVE CopyShallow(_, _, _)
CopyShallow(r, shallow, types) ==
    IF types = {}
    THEN r
    ELSE LET event_type == CHOOSE t \in types : TRUE
         IN  CopyShallow(AddEach(r, shallow[event_type], 1, event_type, << >>),
                         shallow, types \ {event_type})

\* The loop over data_specifics.items(); values are the data values still to
\* visit.
RECURSIVE CopyValues(_, _, _, _, _)
CopyValues(r, event_type, data_key, data_specifics, values) ==
    IF values = {}
    THEN r
    ELSE LET data_value == CHOOSE v \in values : TRUE
         IN  CopyValues(AddEach(r, data_specifics[data_value], 1, event_type,
                                <<<<data_key, data_value>>>>),
                        event_type, data_key, data_specifics, values \ {data_value})

\* The loop over object_attributes.items(), from the i-th key on.
RECURSIVE CopyKeys(_, _, _, _)
CopyKeys(r, event_type, object_attributes, i) ==
    IF i > Len(object_attributes)
    THEN r
    ELSE CopyKeys(CopyValues(r, event_type, object_attributes[i].key,
                             object_attributes[i].values,
                             DOMAIN object_attributes[i].values),
                  event_type, object_attributes, i + 1)

\* The loop over other_router._deep_routes.items().
RECURSIVE CopyDeep(_, _, _)
CopyDeep(r, deep, types) ==
    IF types = {}
    THEN r
    ELSE LET event_type == CHOOSE t \in types : TRUE
         IN  CopyDeep(CopyKeys(r, event_type, deep[event_type], 1),
                      deep, types \ {event_type})

RECURSIVE CopyRouters(_, _, _)
\* A constructor that goes through other_routers from the last to the first.
CopyRoutersLastFirst(r, other_routers, i) ==
    IF i > Len(other_routers)
    THEN r
    ELSE LET o == other_routers[Len(other_routers) + 1 - i]
         IN  CopyRouters(CopyDeep(CopyShallow(r, o.shallow, DOMAIN o.shallow),
                                  o.deep, DOMAIN o.deep),
                         other_routers, i + 1)

\* "for other_router in other_routers" of Router.__init__, from the i-th on.
CopyRouters(r, other_routers, i) ==
    IF i > Len(other_routers)
    THEN r
    ELSE LET o == other_routers[i]
         IN  CopyRouters(CopyDeep(CopyShallow(r, o.shallow, DOMAIN o.shallow),
                                  o.deep, DOMAIN o.deep),
                         other_routers, i + 1)

\* Router(*other_routers): the tables of the new router.
RouterNew(other_routers) == CopyRouters(EmptyRouter, other_routers, 1)

\* Event.object_attributes: data.get("object_attributes", {}).
ObjectAttributes(event) ==
    IF "object_attributes" \in DOMAIN event.data
    THEN event.data["object_attributes"]
    ELSE EmptyMap

\* The deep callbacks dispatch collects from the entries i.. of an event type.
RECURSIVE DeepFound(_, _, _)
\* A collection that takes a bucket of every key the event has, whatever the
\* value registered.
DeepFoundAnyValue(details, event, i) ==
    IF i > Len(details)
    THEN << >>
    ELSE LET data_key == details[i].key
             data_values == details[i].values
             here == IF data_key \in DOMAIN ObjectAttributes(event)
                     THEN data_values[CHOOSE v \in DOMAIN data_values : TRUE]
                     ELSE << >>
         IN  here \o DeepFound(details, event, i + 1)

DeepFound(details, event, i) ==
    IF i > Len(details)
    THEN << >>
    ELSE LET data_key == details[i].key
             data_values == details[i].values
             here == IF /\ data_key \in DOMAIN ObjectAttributes(event)
                        /\ ObjectAttributes(event)[data_key] \in DOMAIN data_values
                     THEN data_values[ObjectAttributes(event)[data_key]]
                     ELSE << >>
         IN  here \o DeepFound(details, event, i + 1)

\* A collection that puts the deep callbacks before the shallow ones.
FoundCallbacksDeepFirst(shallow, deep, event) ==
    (IF event.event \in DOMAIN deep THEN DeepFound(deep[event.event], event, 1)
     ELSE << >>)
    \o (IF event.event \in DOMAIN shallow THEN shallow[event.event] ELSE << >>)

\* A collection that drops a shallow callback that is also found deep.
FoundCallbacksNoRepeat(shallow, deep, event) ==
    LET deep_found == IF event.event \in DOMAIN deep
                      THEN DeepFound(deep[event.event], event, 1)
                      ELSE << >>
        again(f) == \E i \in 1..Len(deep_found) : deep_found[i] = f
    IN  (IF event.event \in DOMAIN shallow
         THEN SelectSeq(shallow[event.event], LAMBDA f : ~again(f))
         ELSE << >>) \o deep_found

\* found_callbacks of Router.dispatch.
FoundCallbacks(shallow, deep, event) ==
    (IF event.event \in DOMAIN shallow THEN shallow[event.event] ELSE << >>)
    \o (IF event.event \in DOMAIN deep THEN DeepFound(deep[event.event], event, 1)
        ELSE << >>)

\* The tasks that call the client.
Tasks == {1, 2}

\* The frame of a task that called nothing yet.
IdleFrame ==
    [pc |-> "idle", verb |-> "", params |-> EmptyMap, rq |-> None,
     response |-> None, result |-> None,
     cache_before |-> None, rate_before |-> None, rate_sent |-> None,
     reads |-> 0, writes |-> 0,
     items |-> << >>, more |-> None, trace |-> << >>, nexchanges |-> 0]

\* No server is looked at.
NoServer == [npages |-> 0, pagesize |-> 0, extra |-> EmptyMap, etags |-> FALSE]

\* The client's variables while another component is looked at.
ClientIdle ==
    /\ client = [requester |-> "test_abc", access_token |-> None]
    /\ cache = None
    /\ rate_limit = None
    /\ frame = [t \in Tasks |-> IdleFrame]
    /\ ncalls = 0
    /\ server = NoServer

\* No dispatch was made yet.
NoDispatch ==
    [pc |-> "idle", event |-> [event |-> "", data |-> EmptyMap],
     found |-> << >>, idx |-> 0, invoked |-> << >>, failed |-> 0]

\* The loop of Router.dispatch about to await found[idx]: the callback
\* is started, or the loop is over and dispatch returns.
DispatchLoop(d, idx) ==
    IF idx <= Len(d.found)
    THEN [d EXCEPT !.pc = "in_callback", !.idx = idx,
                   !.invoked = Append(d.invoked, d.found[idx])]
    ELSE [d EXCEPT !.pc = "returned", !.idx = idx]

\* A loop that walks the lists of the tables as they are when a callback
\* returns, not the list collected at the start.
AfterCallbackReturnsLive(d) ==
    DispatchLoop([d EXCEPT !.found = FoundCallbacks(shallow_routes, deep_routes, d.event)],
                 d.idx + 1)

\* "await callback(...)" when the callback returns: the loop goes on.
AfterCallbackReturns(d) == DispatchLoop(d, d.idx + 1)

\* A dispatch that swallows the failure of a callback and goes on.
AfterCallbackRaisesSwallowed(d) == DispatchLoop([d EXCEPT !.failed = d.idx], d.idx + 1)

\* "await callback(...)" when the callback raises: nothing catches the
\* exception, it leaves dispatch.  failed is the position of that callback.
AfterCallbackRaises(d) == [d EXCEPT !.pc = "raised", !.failed = d.idx]

\* Router.add was not called yet.
NoAdd == [func |-> "", event_type |-> "", object_attribute |-> << >>, raised |-> ""]

\* The routers a router may be built from.
Others == {1, 2}

Callbacks == {"f", "g"}
EventTypes == {"Issue Hook", "Push Hook"}

\* The keyword arguments given to Router.add: none, one, or two.
AttributeArgs ==
    {<< >>, <<<<"action", "open">>>>, <<<<"action", "close">>>>, <<<<"state", "opened">>>>,
     <<<<"action", "open">>, <<"state", "opened">>>>}

\* Webhook events: with and without object_attributes.
Events ==
    [event : EventTypes,
     data : {EmptyMap,
             [object_attributes |-> [action |-> "open", state |-> "opened"]],
             [object_attributes |-> [action |-> "close"]]}]

RouterIdle ==
    /\ shallow_routes = EmptyMap
    /\ deep_routes = EmptyMap
    /\ dispatch = NoDispatch
    /\ registered = 0
    /\ added = NoAdd
    /\ others = [i \in Others |-> EmptyRouter]
    /\ built = << >>

RouterInit ==
    /\ RouterIdle
    /\ now = 0
    /\ resp = None
    /\ out = None
    /\ ClientIdle
    /\ EventIdle

\* router.add(func, event_type, **object_attribute), also while a dispatch is
\* suspended in a callback.
Add(func, event_type, object_attribute) ==
    LET r == RouterAdd(shallow_routes, deep_routes, func, event_type, object_attribute)
    IN  /\ registered < MaxAdds
        /\ registered' = registered + 1
        /\ shallow_routes' = r.shallow
        /\ deep_routes' = r.deep
        /\ added' = [func |-> func, event_type |-> event_type,
                     object_attribute |-> object_attribute, raised |-> r.raised]
        /\ UNCHANGED <<dispatch, others, built>>
        /\ UNCHANGED decVars
        /\ UNCHANGED clVars
        /\ UNCHANGED evVars

\* router.dispatch(event) up to its first suspension.
Dispatch(event) ==
    /\ dispatch.pc # "in_callback"
    /\ dispatch' = DispatchLoop([pc |-> "idle", event |-> event,
                                 found |-> FoundCallbacks(shallow_routes, deep_routes, event),
                                 idx |-> 0, invoked |-> << >>, failed |-> 0], 1)
    /\ UNCHANGED <<shallow_routes, deep_routes, registered, added, others, built>>
    /\ UNCHANGED decVars
    /\ UNCHANGED clVars
    /\ UNCHANGED evVars

\* The callback dispatch awaits returns.
CallbackReturns ==
    /\ dispatch.pc = "in_callback"
    /\ dispatch' = AfterCallbackReturns(dispatch)
    /\ UNCHANGED <<shallow_routes, deep_routes, registered, added, others, built>>
    /\ UNCHANGED decVars
    /\ UNCHANGED clVars
    /\ UNCHANGED evVars

\* The callback dispatch awaits raises.
CallbackRaises ==
    /\ dispatch.pc = "in_callback"
    /\ dispatch' = AfterCallbackRaises(dispatch)
    /\ UNCHANGED <<shallow_routes, deep_routes, registered, added, others, built>>
    /\ UNCHANGED decVars
    /\ UNCHANGED clVars
    /\ UNCHANGED evVars

RouterNext ==
    \/ \E func \in Callbacks, event_type \in EventTypes, object_attribute \in AttributeArgs :
          Add(func, event_type, object_attribute)
    \/ \E event \in Events : Dispatch(event)
    \/ CallbackReturns
    \/ CallbackRaises

SpecRouter == RouterInit /\ [][RouterNext]_vars

-----------------------------------------------------------------------------
(* A router built from other routers *)

\* The registrations made on the routers of this part.
MergeAttributeArgs == {<< >>, <<<<"action", "open">>>>, <<<<"state", "opened">>>>}

\* The argument lists of Router(...): one router, or two in either order.
BuildOrders == {<<1>>, <<1, 2>>, <<2, 1>>}

\* other.add(func, event_type, **object_attribute) on the i-th other router.
AddOther(i, func, event_type, object_attribute) ==
    LET r == RouterAdd(others[i].shallow, others[i].deep, func, event_type,
                       object_attribute)
    IN  /\ registered < MaxAdds
        /\ registered' = registered + 1
        /\ others' = [others EXCEPT ![i] = [shallow |-> r.shallow, deep |-> r.deep]]
        /\ added' = [func |-> func, event_type |-> event_type,
                     object_attribute |-> object_attribute, raised |-> r.raised]
        /\ UNCHANGED <<shallow_routes, deep_routes, dispatch, built>>
        /\ UNCHANGED decVars
        /\ UNCHANGED clVars
        /\ UNCHANGED evVars

\* router = Router(*other_routers) with the others in the given order.
Build(order) ==
    LET r == RouterNew([k \in 1..Len(order) |-> others[order[k]]])
    IN  /\ built = << >>
        /\ built' = order
        /\ shallow_routes' = r.shallow
        /\ deep_routes' = r.deep
        /\ UNCHANGED <<dispatch, registered, added, others>>
        /\ UNCHANGED decVars
        /\ UNCHANGED clVars
        /\ UNCHANGED evVars

\* router.add(...) on the router that was built.
AddBuilt(func, event_type, object_attribute) ==
    /\ built # << >>
    /\ Add(func, event_type, object_attribute)

MergeNext ==
    \/ \E i \in Others, func \in Callbacks, object_attribute \in MergeAttributeArgs :
          AddOther(i, func, "Issue Hook", object_attribute)
    \/ \E order \in BuildOrders : Build(order)
    \/ \E func \in Callbacks, object_attribute \in MergeAttributeArgs :
          AddBuilt(func, "Issue Hook", object_attribute)

SpecMerge == RouterInit /\ [][MergeNext]_vars

-----------------------------------------------------------------------------
(* Claims about the router *)

\* The dispatch call has ended, by returning or by raising.
DispatchEnded == dispatch.pc \in {"returned", "raised"}

\* C2 as stated: dispatch does not short-circuit on a callback failure; when the
\* i-th matched callback raises, every matched callback after it is still
\* invoked, so a dispatch that has ended has invoked all it found.
C2_NoShortCircuit == DispatchEnded => dispatch.invoked = dispatch.found

\* C2 as amended: a dispatch that ends because its i-th callback raised has
\* invoked exactly the first i matched callbacks, in order, and none after; a
\* dispatch that returns has invoked all of them.
C2_ShortCircuits ==
    /\ dispatch.failed # 0 =>
          /\ dispatch.pc = "raised"
          /\ dispatch.failed \in 1..Len(dispatch.found)
          /\ dispatch.invoked = SubSeq(dispatch.found, 1, dispatch.failed)
    /\ dispatch.pc = "returned" => dispatch.invoked = dispatch.found

\* A callback raised while matched callbacks were still to be invoked.
C2_Witness ==
    /\ dispatch.pc = "raised"
    /\ dispatch.failed < Len(dispatch.found)
    /\ Len(dispatch.invoked) = dispatch.failed

-----------------------------------------------------------------------------
(* abc.py: the request/cache orchestrator *)

\* The "no data" argument b"".
NoData == <<"bytes", "">>

ApiHost == "https://gitlab.com"

\* The path of GitLabAPI.api_url: urljoin(url, "/api/v4/").
ApiPath == <<"api", "v4">>

NoUrl == [host |-> "", lead |-> FALSE, path |-> << >>, query |-> EmptyMap]

\* urllib.parse.parse_qs: parameters with a blank value are dropped.
parse_qs(query) == [k \in {x \in DOMAIN query : query[x] # ""} |-> query[k]]

\* Line 44 of GitLabAPI.__init__: urljoin(url, "/api/<api_version>/").  The
\* reference starts with a slash, so its path takes the place of the path
\* of url.
api_url(url, api_version) ==
    [host |-> url.host, lead |-> FALSE, path |-> <<"api", api_version>>, query |-> EmptyMap]

\* urljoin(self.api_url, url.lstrip("/")) of format_url: an absolute url is
\* kept; a relative one, its leading slash stripped, is appended to the path
\* of api_url, which ends with a slash.
urljoin(api, url) ==
    IF url.host = ""
    THEN [host |-> api.host, lead |-> FALSE, path |-> api.path \o url.path,
          query |-> url.query]
    ELSE url

\* GitLabAPI.format_url on a client whose api_url is api: the url joined
\* onto api_url, then, when params is not empty, its query parsed, updated
\* with params and encoded again.
format_url_at(api, url, params) ==
    LET joined == urljoin(api, url)
    IN  IF params # EmptyMap
        THEN [joined EXCEPT !.query = params @@ parse_qs(joined.query)]
        ELSE joined

\* GitLabAPI.format_url on a client built with the default url and
\* api_version.
format_url(url, params) ==
    format_url_at(api_url([host |-> ApiHost, lead |-> FALSE, path |-> << >>,
                           query |-> EmptyMap], "v4"),
                  url, params)

\* A create_headers that also identifies the requester with an Authorization
\* header.
create_headers_bearer(requester, access_token) ==
    IF IsNone(access_token)
    THEN ("user-agent" :> requester) @@ ("accept" :> "application/json")
    ELSE ("user-agent" :> requester) @@ ("accept" :> "application/json")
            @@ ("private-token" :> access_token[1])
            @@ ("Authorization" :> access_token[1])

\* sansio.create_headers.
create_headers(requester, access_token) ==
    IF IsNone(access_token)
    THEN ("user-agent" :> requester) @@ ("accept" :> "application/json")
    ELSE ("user-agent" :> requester) @@ ("accept" :> "application/json")
            @@ ("private-token" :> access_token[1])

\* The number of decimal digits of n >= 0.
RECURSIVE DigitCount(_)
DigitCount(n) == IF n < 10 THEN 1 ELSE 1 + DigitCount(n \div 10)

\* len(json.dumps(v)): the separators are ", " and ": ".
RECURSIVE JsonLen(_), JsonLenSeq(_, _), JsonLenKeys(_, _)
JsonLen(v) ==
    CASE v[1] = "null" -> 4
      [] v[1] = "int" -> IF v[2] < 0 THEN 1 + DigitCount(0 - v[2]) ELSE DigitCount(v[2])
      [] v[1] = "str" -> Len(v[2]) + 2
      [] v[1] = "list" -> 2 + JsonLenSeq(v[2], 1)
      [] v[1] = "obj" -> 2 + JsonLenKeys(v[2], DOMAIN v[2])

JsonLenSeq(l, i) ==
    IF i > Len(l) THEN 0
    ELSE JsonLen(l[i]) + (IF i < Len(l) THEN 2 ELSE 0) + JsonLenSeq(l, i + 1)

JsonLenKeys(f, keys) ==
    IF keys = {} THEN 0
    ELSE LET k == CHOOSE x \in keys : TRUE
         IN  Len(k) + 2 + 2 + JsonLen(f[k]) + (IF keys # {k} THEN 2 ELSE 0)
                + JsonLenKeys(f, keys \ {k})

\* The cache entry written for a response.
CacheEntry(etag, last_modified, data, more) ==
    [etag |-> etag, last_modified |-> last_modified, data |-> data, more |-> more]

\* A variant of the conditional headers that sends if-modified-since only
\* for an entry without etag.
ConditionalHeadersEtagFirst(entry) ==
    IF ~IsNone(entry.etag)
    THEN ("if-none-match" :> entry.etag[1])
    ELSE IF ~IsNone(entry.last_modified)
    THEN ("if-modified-since" :> entry.last_modified[1])
    ELSE EmptyMap

\* Lines 111-115 of _make_request: the conditional headers of a request
\* whose url has the cache entry.
ConditionalHeaders(entry) ==
    (IF ~IsNone(entry.etag)
     THEN ("if-none-match" :> entry.etag[1]) ELSE EmptyMap)
    @@ (IF ~IsNone(entry.last_modified)
        THEN ("if-modified-since" :> entry.last_modified[1]) ELSE EmptyMap)

\* A request builder that takes None for the absence of data, as b"".
BuildRequestNoneIsNoData(cl, cache_, method, url, params, data) ==
    LET filled_url == format_url(url, params)
        request_headers == create_headers(cl.requester, cl.access_token)
        nodata == (data[1] = "bytes" /\ data[2] = "") \/ data = JNull
        cacheable == nodata /\ method = "GET" /\ ~IsNone(cache_)
        cached == cacheable /\ filled_url \in DOMAIN cache_[1]
        entry == IF cached THEN Some(cache_[1][filled_url]) ELSE None
        conditional == IF cached THEN ConditionalHeaders(entry[1]) ELSE EmptyMap
    IN  [method |-> method,
         filled_url |-> filled_url,
         data |-> data,
         body |-> IF nodata THEN <<"empty">> ELSE <<"json", data>>,
         headers |->
            IF nodata
            THEN ("content-length" :> 0) @@ conditional @@ request_headers
            ELSE ("content-type" :> [type |-> "application/json", charset |-> "utf-8"])
                    @@ ("content-length" :> JsonLen(data)) @@ request_headers,
         cacheable |-> cacheable,
         cached |-> cached,
         entry |-> entry,
         reads |-> IF cacheable THEN 1 ELSE 0]

\* Lines 95-120 of _make_request: the url, the headers, the body and the cache
\* lookup.  entry is the tuple read from the cache, reads counts the lookups.
BuildRequest(cl, cache_, method, url, params, data) ==
    LET filled_url == format_url(url, params)
        request_headers == create_headers(cl.requester, cl.access_token)
        nodata == data[1] = "bytes" /\ data[2] = ""
        cacheable == nodata /\ method = "GET" /\ ~IsNone(cache_)
        cached == cacheable /\ filled_url \in DOMAIN cache_[1]
        entry == IF cached THEN Some(cache_[1][filled_url]) ELSE None
        conditional == IF cached THEN ConditionalHeaders(entry[1]) ELSE EmptyMap
    IN  [method |-> method,
         filled_url |-> filled_url,
         data |-> data,
         body |-> IF nodata THEN <<"empty">> ELSE <<"json", data>>,
         headers |->
            IF nodata
            THEN ("content-length" :> 0) @@ conditional @@ request_headers
            ELSE ("content-type" :> [type |-> "application/json", charset |-> "utf-8"])
                    @@ ("content-length" :> JsonLen(data)) @@ request_headers,
         cacheable |-> cacheable,
         cached |-> cached,
         entry |-> entry,
         reads |-> IF cacheable THEN 1 ELSE 0]

\* A decrement that stops at zero.
DecrementClamped(rl) ==
    IF IsNone(rl) \/ rl[1].remaining <= 0
    THEN rl
    ELSE Some([rl[1] EXCEPT !.remaining = rl[1].remaining - 1])

\* A client that leaves the snapshot alone when it sends a request.
DecrementSkipped(rl) == rl

\* Lines 121-122 of _make_request: the optimistic decrement.
Decrement(rl) ==
    IF IsNone(rl) THEN rl ELSE Some([rl[1] EXCEPT !.remaining = rl[1].remaining - 1])

\* A cache write that fills the validators the response lacks from the
\* entry it replaces.
CacheStoreMerged(cache_, url, entry) ==
    LET old == cache_[1][url]
    IN  Some((url :> IF url \in DOMAIN cache_[1]
                     THEN [entry EXCEPT
                              !.etag = IF IsNone(@) THEN old.etag ELSE @,
                              !.last_modified = IF IsNone(@) THEN old.last_modified ELSE @]
                     ELSE entry) @@ cache_[1])

\* The cache write of line 130 (the caller checked that a cache is configured).
CacheStore(cache_, url, entry) == Some((url :> entry) @@ cache_[1])

\* A variant of the write below that stores the entry before the response
\* is known to be a success.
ShouldStoreAlways(rq, cache_, response, d) ==
    /\ ~IsNone(cache_)
    /\ rq.cacheable
    /\ ("etag" \in DOMAIN response.headers \/ "last-modified" \in DOMAIN response.headers)

\* A variant that stores every success, validators or not.
ShouldStoreWithoutValidators(rq, cache_, response, d) ==
    /\ d.kind = "return"
    /\ ~IsNone(cache_)
    /\ rq.cacheable

\* A variant that stores whatever the method and the body of the request.
ShouldStoreAnyRequest(rq, cache_, response, d) ==
    /\ d.kind = "return"
    /\ ~IsNone(cache_)
    /\ ("etag" \in DOMAIN response.headers \/ "last-modified" \in DOMAIN response.headers)

\* A variant that fills the cache but never replaces an entry.
ShouldStoreIfAbsent(rq, cache_, response, d) ==
    /\ d.kind = "return"
    /\ ~IsNone(cache_)
    /\ rq.cacheable
    /\ ~rq.cached
    /\ ("etag" \in DOMAIN response.headers \/ "last-modified" \in DOMAIN response.headers)

\* Lines 126-127 of _make_request, reached when decipher_response returned.
ShouldStore(rq, cache_, response, d) ==
    /\ d.kind = "return"
    /\ ~IsNone(cache_)
    /\ rq.cacheable
    /\ ("etag" \in DOMAIN response.headers \/ "last-modified" \in DOMAIN response.headers)

\* A variant of the cache hit that forgets the stored next page.
CacheHitResultNoMore(rq) == Returned(rq.entry[1].data, None, None)

\* Lines 107 and 131 of _make_request on a cache hit: the data and the next
\* page read from the cache when the request was built are returned.
CacheHitResult(rq) == Returned(rq.entry[1].data, None, rq.entry[1].more)

\* The test of line 124: a 304 answering a request built from a cache entry.
IsCacheHit(rq, response) == response.status = 304 /\ rq.cached

\* A variant of line 125 that keeps the snapshot the client had.
RateLimitAfterKept(rl, d) == rl

\* Line 125 of _make_request: the snapshot of the deciphered response
\* replaces the client's when decipher_response returned.
RateLimitAfter(rl, d) == IF d.kind = "return" THEN d.rate_limit ELSE rl

\* A variant that, on a cache hit, reads the entry again from the cache as
\* it is when the response arrives.
ProcessResponseReadsAgain(rq, cache_, rl, response, t) ==
    IF IsCacheHit(rq, response)
    THEN [cache |-> cache_, rate_limit |-> rl, writes |-> 0,
          result |-> Returned(cache_[1][rq.filled_url].data, None,
                              cache_[1][rq.filled_url].more)]
    ELSE LET d == decipher_response(response.status, response.headers, response.body, t)
             store == ShouldStore(rq, cache_, response, d)
         IN  [cache |-> IF store
                        THEN CacheStore(cache_, rq.filled_url,
                                 CacheEntry(Get(response.headers, "etag"),
                                            Get(response.headers, "last-modified"),
                                            d.data, d.more))
                        ELSE cache_,
              rate_limit |-> RateLimitAfter(rl, d),
              writes |-> IF store THEN 1 ELSE 0,
              result |-> IF d.kind = "return" THEN Returned(d.data, None, d.more) ELSE d]

\* A variant that, on a cache hit, puts the entry it read back in the cache.
ProcessResponseReinserts(rq, cache_, rl, response, t) ==
    IF IsCacheHit(rq, response)
    THEN [cache |-> Some((rq.filled_url :> rq.entry[1]) @@ cache_[1]),
          rate_limit |-> rl, writes |-> 0,
          result |-> CacheHitResult(rq)]
    ELSE LET d == decipher_response(response.status, response.headers, response.body, t)
             store == ShouldStore(rq, cache_, response, d)
         IN  [cache |-> IF store
                        THEN CacheStore(cache_, rq.filled_url,
                                 CacheEntry(Get(response.headers, "etag"),
                                            Get(response.headers, "last-modified"),
                                            d.data, d.more))
                        ELSE cache_,
              rate_limit |-> RateLimitAfter(rl, d),
              writes |-> IF store THEN 1 ELSE 0,
              result |-> IF d.kind = "return" THEN Returned(d.data, None, d.more) ELSE d]

\* A variant that takes every 304 for a cache hit, with no data when the
\* request read no entry.
ProcessResponseAny304(rq, cache_, rl, response, t) ==
    IF response.status = 304
    THEN [cache |-> cache_, rate_limit |-> rl, writes |-> 0,
          result |-> IF rq.cached THEN CacheHitResult(rq) ELSE Returned(JNull, None, None)]
    ELSE LET d == decipher_response(response.status, response.headers, response.body, t)
             store == ShouldStore(rq, cache_, response, d)
         IN  [cache |-> IF store
                        THEN CacheStore(cache_, rq.filled_url,
                                 CacheEntry(Get(response.headers, "etag"),
                                            Get(response.headers, "last-modified"),
                                            d.data, d.more))
                        ELSE cache_,
              rate_limit |-> RateLimitAfter(rl, d),
              writes |-> IF store THEN 1 ELSE 0,
              result |-> IF d.kind = "return" THEN Returned(d.data, None, d.more) ELSE d]

\* Lines 124-131 of _make_request for the request rq (a BuildRequest) once the
\* transport returned response: the cache and the snapshot afterwards, and
\* what the call returns or raises.
ProcessResponse(rq, cache_, rl, response, t) ==
    IF IsCacheHit(rq, response)
    THEN [cache |-> cache_, rate_limit |-> rl, writes |-> 0,
          result |-> CacheHitResult(rq)]
    ELSE LET d == decipher_response(response.status, response.headers, response.body, t)
             store == ShouldStore(rq, cache_, response, d)
         IN  [cache |-> IF store
                        THEN CacheStore(cache_, rq.filled_url,
                                 CacheEntry(Get(response.headers, "etag"),
                                            Get(response.headers, "last-modified"),
                                            d.data, d.more))
                        ELSE cache_,
              rate_limit |-> RateLimitAfter(rl, d),
              writes |-> IF store THEN 1 ELSE 0,
              result |-> IF d.kind = "return" THEN Returned(d.data, None, d.more) ELSE d]


\* _make_request up to "await self._request(...)": the request is built, the
\* snapshot decremented, and the exchange is with the transport.
BeginExchange(f, cl, cache_, rl, method, url, params, data) ==
    LET rq == BuildRequest(cl, cache_, method, url, params, data)
    IN  [f EXCEPT !.pc = "awaiting", !.rq = Some(rq), !.response = None,
                  !.result = None, !.cache_before = cache_, !.rate_before = rl,
                  !.rate_sent = Decrement(rl), !.reads = rq.reads, !.writes = 0,
                  !.trace = Append(@, <<"send", rq.filled_url>>),
                  !.nexchanges = @ + 1]

\* getiter between two suspensions: the next item of the page is yielded, or
\* the page is used up and getiter(more, params) starts the next exchange,
\* or the iteration is over.
IterAdvance(f, cl, cache_, rl) ==
    IF f.items # << >>
    THEN [frame |-> [f EXCEPT !.pc = "yielded", !.items = Tail(@),
                              !.trace = Append(@, <<"yield", Head(f.items)>>)],
          rate_limit |-> rl]
    ELSE IF ~IsNone(f.more)
    THEN [frame |-> BeginExchange(f, cl, cache_, rl, "GET", f.more[1], f.params, NoData),
          rate_limit |-> Decrement(rl)]
    ELSE [frame |-> [f EXCEPT !.pc = "exhausted"], rate_limit |-> rl]

\* A variant that sends the request again, once, when the server answered
\* with a 5xx status.
AfterMakeRequestRetry(f, cl, p, response) ==
    LET done == [f EXCEPT !.response = Some(response), !.result = Some(p.result),
                          !.writes = p.writes,
                          !.pc = IF p.result.kind = "return" THEN "returned" ELSE "raised"]
    IN  IF p.result.kind = "raise" /\ response.status >= 500 /\ f.nexchanges < 2
        THEN [frame |-> BeginExchange(f, cl, p.cache, p.rate_limit, f.rq[1].method,
                                      f.rq[1].filled_url, EmptyMap, NoData),
              rate_limit |-> Decrement(p.rate_limit)]
        ELSE IF f.verb = "getiter" /\ p.result.kind = "return" /\ p.result.data[1] = "list"
        THEN IterAdvance([done EXCEPT !.items = p.result.data[2],
                                      !.more = p.result.more,
                                      !.trace = Append(@, <<"page", p.result.data[2]>>)],
                         cl, p.cache, p.rate_limit)
        ELSE [frame |-> done, rate_limit |-> p.rate_limit]

\* The verb's frame once _make_request returned or raised: the other verbs
\* hand the data to their caller, getiter goes through the page.
AfterMakeRequest(f, cl, p, response) ==
    LET done == [f EXCEPT !.response = Some(response), !.result = Some(p.result),
                          !.writes = p.writes,
                          !.pc = IF p.result.kind = "return" THEN "returned" ELSE "raised"]
    IN  IF f.verb = "getiter" /\ p.result.kind = "return"
        THEN IF p.result.data[1] = "list"
             THEN IterAdvance([done EXCEPT !.items = p.result.data[2],
                                           !.more = p.result.more,
                                           !.trace = Append(@, <<"page", p.result.data[2]>>)],
                              cl, p.cache, p.rate_limit)
             ELSE [frame |-> [done EXCEPT !.pc = "raised",
                                          !.result = Some(RaisedOther("TypeError"))],
                   rate_limit |-> p.rate_limit]
        ELSE [frame |-> done, rate_limit |-> p.rate_limit]

\* A verb is called by task t.
Call(t, verb, method, url, params, data) ==
    /\ frame[t].pc \in {"idle", "returned", "raised", "exhausted"}
    /\ ncalls < MaxCalls
    /\ ncalls' = ncalls + 1
    /\ frame' = [frame EXCEPT ![t] =
                    BeginExchange([IdleFrame EXCEPT !.verb = verb, !.params = params],
                                  client, cache, rate_limit, method, url, params, data)]
    /\ rate_limit' = Decrement(rate_limit)
    /\ UNCHANGED <<client, cache, server>>
    /\ UNCHANGED decVars
    /\ UNCHANGED rtVars
    /\ UNCHANGED evVars

GetItem(t, url, params) == Call(t, "getitem", "GET", url, params, NoData)

GetIter(t, url, params) == Call(t, "getiter", "GET", url, params, NoData)

Post(t, url, params, data) == Call(t, "post", "POST", url, params, data)

Patch(t, url, params, data) == Call(t, "patch", "PATCH", url, params, data)

Put(t, url, params, data) == Call(t, "put", "PUT", url, params, data)

Delete(t, url, params, data) == Call(t, "delete", "DELETE", url, params, data)

\* _make_request called directly, as the tests do to send a GET with a body.
MakeRequest(t, method, url, params, data) ==
    Call(t, "_make_request", method, url, params, data)

\* The transport returns response to task t, which runs to its next suspension
\* or to its end.
Receive(t, response) ==
    /\ frame[t].pc = "awaiting"
    /\ LET p == ProcessResponse(frame[t].rq[1], cache, rate_limit, response, now)
           a == AfterMakeRequest(frame[t], client, p, response)
       IN  /\ a.frame.nexchanges <= MaxExchanges
           /\ frame' = [frame EXCEPT ![t] = a.frame]
           /\ cache' = p.cache
           /\ rate_limit' = a.rate_limit
    /\ UNCHANGED <<client, ncalls, server>>
    /\ UNCHANGED decVars
    /\ UNCHANGED rtVars
    /\ UNCHANGED evVars

\* The transport fails, or the exchange is cancelled: the exception leaves
\* "await self._request(...)" and the verb.
TransportFails(t) ==
    /\ frame[t].pc = "awaiting"
    /\ frame' = [frame EXCEPT ![t] = [@ EXCEPT !.pc = "raised",
                                               !.result = Some(RaisedOther("TransportError"))]]
    /\ UNCHANGED <<client, cache, rate_limit, ncalls, server>>
    /\ UNCHANGED decVars
    /\ UNCHANGED rtVars
    /\ UNCHANGED evVars

\* The consumer of getiter asks for the next item.
IterNext(t) ==
    /\ frame[t].pc = "yielded"
    /\ LET a == IterAdvance(frame[t], client, cache, rate_limit)
       IN  /\ a.frame.nexchanges <= MaxExchanges
           /\ frame' = [frame EXCEPT ![t] = a.frame]
           /\ rate_limit' = a.rate_limit
    /\ UNCHANGED <<client, cache, ncalls, server>>
    /\ UNCHANGED decVars
    /\ UNCHANGED rtVars
    /\ UNCHANGED evVars

-----------------------------------------------------------------------------
(* The client against arbitrary responses *)

\* "/fake" resolved, and its second page.
Url1 == [host |-> ApiHost, lead |-> FALSE, path |-> ApiPath \o <<"fake">>, query |-> EmptyMap]
Url2 == [Url1 EXCEPT !.query = ("page" :> "2")]

\* "/fake" as the tests write it.
RelUrl == [host |-> "", lead |-> TRUE, path |-> <<"fake">>, query |-> EmptyMap]

InputParams == {EmptyMap, ("foo" :> "stuff")}

\* The str "" the class documents as the value for no data.
EmptyStr == JStr("")

\* The data handed to the verbs that send some: b"", None, 42 and "".
InputData == {NoData, JNull, JInt(42), EmptyStr}

\* GitLabAPI(requester, access_token=..., cache=...).
Clients ==
    {[requester |-> "test_abc", access_token |-> None],
     [requester |-> "test_abc", access_token |-> Some("access token")]}

\* The caches handed to the constructor: none, an empty one, and ones that
\* hold an entry for "/fake".
InitialCaches ==
    {None, Some(EmptyMap),
     Some(Url1 :> CacheEntry(Some("e1"), None, JInt(7), None)),
     Some(Url1 :> CacheEntry(None, Some("m1"), JInt(7), Some(Url2))),
     Some(Url1 :> CacheEntry(Some("e1"), Some("m1"), JInt(7), None))}

\* The headers of the responses: validators, rate limit and next link, each
\* present or not.
ClientHeaderSets ==
    {("content-type" :> [type |-> "application/json", charset |-> "utf-8"])
        @@ e @@ m @@ r @@ l :
        e \in {EmptyMap, ("etag" :> "e2")},
        m \in {EmptyMap, ("last-modified" :> "m2")},
        r \in {EmptyMap,
               ("ratelimit-limit" :> 2) @@ ("ratelimit-remaining" :> 1)
                   @@ ("ratelimit-reset" :> 0)},
        l \in {EmptyMap,
               ("link" :> <<[uri |-> Url2, param_type |-> "rel", param_value |-> "next"]>>)}}

Responses ==
    [status : {200, 201, 304, 404, 500},
     headers : ClientHeaderSets,
     body : {<<"empty">>, <<"json", JInt(42)>>}]

Init ==
    /\ client = [requester |-> "test_abc", access_token |-> Some("access token")]
    /\ cache \in InitialCaches
    /\ rate_limit = None
    /\ frame = [t \in Tasks |-> IdleFrame]
    /\ ncalls = 0
    /\ server = NoServer
    /\ now = 1
    /\ resp = None
    /\ out = None
    /\ RouterIdle
    /\ EventIdle

Next ==
    \/ \E url \in {RelUrl, Url1}, params \in InputParams : GetItem(1, url, params)
    \/ \E data \in InputData \ {NoData} : Post(1, RelUrl, EmptyMap, data)
    \/ Patch(1, RelUrl, EmptyMap, JInt(42))
    \/ \E data \in {NoData, JInt(42)} : Put(1, RelUrl, EmptyMap, data)
    \/ Delete(1, RelUrl, EmptyMap, NoData)
    \/ \E data \in InputData \ {NoData} : MakeRequest(1, "GET", RelUrl, EmptyMap, data)
    \/ \E response \in Responses : Receive(1, response)
    \/ TransportFails(1)

Spec == Init /\ [][Next]_vars

-----------------------------------------------------------------------------
(* getiter against a server whose pages form a chain *)

\* str(k) for the page numbers.
Digits == <<"1", "2", "3", "4", "5", "6", "7", "8", "9">>

\* int(s) of a page number.
PageNo(s) == CHOOSE k \in 1..Len(Digits) : Digits[k] = s

\* The url of page k as the server writes it in its link headers; extra are
\* the other query parameters the server puts there.
PageUrl(srv, k) == [Url1 EXCEPT !.query = ("page" :> Digits[k]) @@ srv.extra]

\* The items of page k.
PageItems(srv, k) == [j \in 1..srv.pagesize |-> JInt(10 * k + j)]

\* The page a request asks for: the one its page parameter names, the first
\* without one.
RequestedPage(rq) ==
    IF "page" \in DOMAIN rq.filled_url.query
    THEN PageNo(rq.filled_url.query["page"])
    ELSE 1

\* What the server answers to the request rq: the page with a link to the
\* next one unless it is the last, an empty list beyond the last page, and
\* 304 when the request carries the page's current etag.
ServerResponse(srv, rq) ==
    LET k == RequestedPage(rq)
        validators == IF srv.etags THEN ("etag" :> Digits[k]) ELSE EmptyMap
        link == IF k < srv.npages
                THEN ("link" :>
                        <<[uri |-> PageUrl(srv, 1), param_type |-> "rel",
                           param_value |-> "first"],
                          [uri |-> PageUrl(srv, k + 1), param_type |-> "rel",
                           param_value |-> "next"]>>)
                ELSE EmptyMap
        rate == ("ratelimit-limit" :> 2) @@ ("ratelimit-remaining" :> 1)
                    @@ ("ratelimit-reset" :> 0)
    IN  IF srv.etags /\ "if-none-match" \in DOMAIN rq.headers
           /\ rq.headers["if-none-match"] = Digits[k]
        THEN [status |-> 304, headers |-> validators @@ rate, body |-> <<"empty">>]
        ELSE [status |-> 200,
              headers |-> ("content-type" :> [type |-> "application/json",
                                               charset |-> "utf-8"])
                              @@ validators @@ link @@ rate,
              body |-> <<"json", JList(IF k <= srv.npages THEN PageItems(srv, k)
                                       ELSE << >>)>>]

\* The servers: how many pages, how many items a page, the query parameters
\* of its links beside page, and whether it sends etags.
Servers ==
    [npages : 1..MaxPages, pagesize : 0..MaxPageSize,
     extra : {EmptyMap, ("per_page" :> "20"), ("order" :> "")},
     etags : BOOLEAN]

\* The vars handed to getiter.
IterParams == {EmptyMap, ("foo" :> "stuff"), ("per_page" :> "50"), ("page" :> "1")}

IterInit ==
    /\ client \in Clients
    /\ cache \in {None, Some(EmptyMap)}
    /\ rate_limit = None
    /\ frame = [t \in Tasks |-> IdleFrame]
    /\ ncalls = 0
    /\ server \in Servers
    /\ now = 1
    /\ resp = None
    /\ out = None
    /\ RouterIdle
    /\ EventIdle

\* The transport returns the server's answer to the request of task t.
Serve(t) ==
    /\ frame[t].pc = "awaiting"
    /\ Receive(t, ServerResponse(server, frame[t].rq[1]))

\* The server is down: the transport returns a 502.
ServeBroken(t) ==
    /\ frame[t].pc = "awaiting"
    /\ Receive(t, [status |-> 502, headers |-> EmptyMap, body |-> <<"empty">>])

IterNextStep ==
    \/ \E params \in IterParams : GetIter(1, RelUrl, params)
    \/ Serve(1)
    \/ ServeBroken(1)
    \/ TransportFails(1)
    \/ IterNext(1)

SpecIter == IterInit /\ [][IterNextStep]_vars

-----------------------------------------------------------------------------
(* The decoder on its own: one response, deciphered once *)

ContentTypes ==
    {[type |-> "application/json", charset |-> "utf-8"],
     [type |-> "text/plain", charset |-> "utf-8"]}

\* The errors list of a 422 body.
FieldErrors == JList(<<JObj([field |-> JStr("title"), code |-> JStr("missing_field")])>>)

\* Bodies of responses: empty, JSON objects with and without a message and
\* with and without errors, a JSON list, and bytes that are no JSON text.
DecBodies ==
    {<<"empty">>,
     <<"json", JObj([message |-> JStr("oops")])>>,
     <<"json", JObj(EmptyMap)>>,
     <<"json", JObj([message |-> JStr("oops"), errors |-> FieldErrors])>>,
     <<"json", JObj([errors |-> FieldErrors])>>,
     <<"json", JObj([message |-> JStr("oops"), errors |-> JList(<< >>)])>>,
     <<"json", JList(<<JInt(1), JInt(2)>>)>>,
     <<"text", "garbage">>}

\* The statuses of the responses; 599 is a status servers send that
\* http.HTTPStatus does not know.
DecStatuses == {200, 201, 202, 204, 205, 301, 304, 400, 403, 404, 422, 500, 502, 599}

\* Header mappings: each of the three rate-limit headers present or not.
RateHeaderSets ==
    {h \in UNION {[names -> 0..MaxTime] :
                      names \in SUBSET {"ratelimit-limit", "ratelimit-remaining",
                                        "ratelimit-reset"}} :
        "ratelimit-limit" \in DOMAIN h => h["ratelimit-limit"] = 2}

DecHeaderSets ==
    {h @@ c : h \in RateHeaderSets,
              c \in {EmptyMap} \cup {[x \in {"content-type"} |-> ct] : ct \in ContentTypes}}

DecInit ==
    /\ now \in 0..MaxTime
    /\ resp \in [status : DecStatuses, headers : DecHeaderSets, body : DecBodies]
    /\ out = None
    /\ RouterIdle
    /\ ClientIdle
    /\ EventIdle

\* One call of decipher_response on the response.
Decipher ==
    /\ IsNone(out)
    /\ out' = Some(decipher_response(resp.status, resp.headers, resp.body, now))
    /\ UNCHANGED <<now, resp>>
    /\ UNCHANGED rtVars
    /\ UNCHANGED evVars
    /\ UNCHANGED clVars

\* Time passes between one call and the next.
Tick ==
    /\ now < MaxTime
    /\ now' = now + 1
    /\ UNCHANGED <<resp, out>>
    /\ UNCHANGED rtVars
    /\ UNCHANGED evVars
    /\ UNCHANGED clVars

\* The caller hands the next response to the decoder: one that differs from
\* the last in its status, its headers or its body.
NextResponse ==
    /\ ~IsNone(out)
    /\ resp' \in {[resp EXCEPT !.status = s] : s \in DecStatuses}
                 \cup {[resp EXCEPT !.headers = h] : h \in DecHeaderSets}
                 \cup {[resp EXCEPT !.body = b] : b \in DecBodies}
    /\ out' = None
    /\ UNCHANGED now
    /\ UNCHANGED rtVars
    /\ UNCHANGED evVars
    /\ UNCHANGED clVars

DecNext == Decipher \/ Tick \/ NextResponse

SpecDecipher == DecInit /\ [][DecNext]_vars

-----------------------------------------------------------------------------------------------------------------------------------------------------
(* Event.from_http on its own: one webhook request, read once *)

\* The secrets: of the webhook as configured, and of the request's token.
Secrets == {"", "my-secret-token", "bad secret"}

\* The content types of webhook requests; the second is an empty header.
HookContentTypes ==
    {[type |-> "application/json", charset |-> "utf-8"],
     [type |-> "", charset |-> "utf-8"],
     [type |-> "application/x-www-form-urlencoded", charset |-> "utf-8"],
     [type |-> "image/png", charset |-> "utf-8"]}

\* The headers of webhook requests: token, content type and event type, each
\* present or not.
HookHeaderSets ==
    {t @@ c @@ e :
        t \in {EmptyMap} \cup {[x \in {"x-gitlab-token"} |-> v] : v \in Secrets},
        c \in {EmptyMap} \cup {[x \in {"content-type"} |-> ct] : ct \in HookContentTypes},
        e \in {EmptyMap} \cup {[x \in {"x-gitlab-event"} |-> ty] : ty \in EventTypes}}

\* The bodies of webhook requests: empty, JSON, a form with a JSON payload,
\* and bytes that are neither.
HookBodies ==
    {<<"empty">>,
     <<"json", JObj([object_kind |-> JStr("push")])>>,
     <<"form", JObj([object_kind |-> JStr("push")])>>,
     <<"text", "garbage">>}

\* The secret configured: none or one of Secrets.
HookSecrets == {None} \cup {Some(v) : v \in Secrets \ {"bad secret"}}

EventInit ==
    /\ hook \in [headers : HookHeaderSets, body : HookBodies, secret : HookSecrets]
    /\ produced = None
    /\ bot = NoRequest
    /\ supplied = NoSupplied
    /\ now = 0
    /\ resp = None
    /\ out = None
    /\ RouterIdle
    /\ ClientIdle

\* One call of Event.from_http on the request.
FromHttp ==
    /\ IsNone(produced)
    /\ produced' = Some(from_http(hook.headers, hook.body, hook.secret))
    /\ UNCHANGED <<hook, bot, supplied>>
    /\ UNCHANGED decVars
    /\ UNCHANGED rtVars
    /\ UNCHANGED clVars

\* The next webhook request arrives: one that differs from the last in its
\* headers or its body.
NextHook ==
    /\ ~IsNone(produced)
    /\ hook' \in {[hook EXCEPT !.headers = h] : h \in HookHeaderSets}
                 \cup {[hook EXCEPT !.body = b] : b \in HookBodies}
    /\ produced' = None
    /\ UNCHANGED <<bot, supplied>>
    /\ UNCHANGED decVars
    /\ UNCHANGED rtVars
    /\ UNCHANGED clVars

EventNext == FromHttp \/ NextHook

SpecEvent == EventInit /\ [][EventNext]_vars

-----------------------------------------------------------------------------
(* aiohttp.py: the webhook receiver *)

\* What Event.data is to Event.object_attributes and Router.dispatch when the
\* body decoded to a JSON object of objects of strings: the mapping itself.
EventData(v) ==
    [k \in DOMAIN v[2] |-> [a \in DOMAIN v[2][k][2] |-> v[2][k][2][a][2]]]

\* The exception that leaves Router.dispatch before any callback is awaited
\* ("" for none): event.object_attributes is read once deep routes exist for
\* the event type, and it is self.data.get(...), an AttributeError on None.
DispatchRaises(deep, e) ==
    IF e.event \in DOMAIN deep /\ e.data = JNull THEN "AttributeError" ELSE ""

\* The event handed to dispatch, as the router reads it.
RoutedEvent(e) ==
    [event |-> e.event, data |-> IF e.data = JNull THEN EmptyMap ELSE EventData(e.data)]

\* webhook_handler's "try: ... return web.Response(status=200)
\* except Exception: ... return web.Response(status=500)", exc the exception
\* raised in the try block ("" for none).
Answer(exc) ==
    [pc |-> "answered", status |-> IF exc = "" THEN 200 ELSE 500, propagated |-> ""]

\* aiohttp hands POST / to webhook_handler, which runs up to
\* "await asyncio.sleep(1)": it reads the body and calls Event.from_http with
\* the secret of the bot.
WebhookRequest(headers, body) ==
    LET made == from_http(headers, body, hook.secret)
    IN  /\ bot.pc \in {"idle", "answered"}
        /\ hook' = [hook EXCEPT !.headers = headers, !.body = body]
        /\ produced' = Some(made)
        /\ bot' = IF made.kind = "raise" THEN Answer(made.exc)
                  ELSE [pc |-> "sleeping", status |-> 0, propagated |-> ""]
        /\ dispatch' = NoDispatch
        /\ UNCHANGED supplied
        /\ UNCHANGED <<shallow_routes, deep_routes, registered, added, others, built>>
        /\ UNCHANGED decVars
        /\ UNCHANGED clVars

\* The sleep is over: "await self.router.dispatch(event, gl)" up to its first
\* suspension, or up to its end when no callback is found.
HandlerDispatches ==
    LET e == produced[1]
        exc == DispatchRaises(deep_routes, e)
        d == DispatchLoop([pc |-> "idle", event |-> RoutedEvent(e),
                           found |-> FoundCallbacks(shallow_routes, deep_routes,
                                                    RoutedEvent(e)),
                           idx |-> 0, invoked |-> << >>, failed |-> 0], 1)
    IN  /\ bot.pc = "sleeping"
        /\ dispatch' = IF exc # "" THEN [NoDispatch EXCEPT !.pc = "raised"] ELSE d
        /\ bot' = IF exc # "" THEN Answer(exc)
                  ELSE IF d.pc = "returned" THEN Answer("")
                  ELSE [bot EXCEPT !.pc = "dispatching"]
        /\ UNCHANGED <<shallow_routes, deep_routes, registered, added, others, built>>
        /\ UNCHANGED <<hook, produced, supplied>>
        /\ UNCHANGED decVars
        /\ UNCHANGED clVars

\* The callback the handler's dispatch awaits returns.
HandlerCallbackReturns ==
    /\ bot.pc = "dispatching"
    /\ dispatch.pc = "in_callback"
    /\ dispatch' = AfterCallbackReturns(dispatch)
    /\ bot' = IF dispatch'.pc = "returned" THEN Answer("") ELSE bot
    /\ UNCHANGED <<shallow_routes, deep_routes, registered, added, others, built>>
    /\ UNCHANGED <<hook, produced, supplied>>
    /\ UNCHANGED decVars
    /\ UNCHANGED clVars

\* The callback the handler's dispatch awaits raises an Exception.
HandlerCallbackRaises ==
    /\ bot.pc = "dispatching"
    /\ dispatch.pc = "in_callback"
    /\ dispatch' = AfterCallbackRaises(dispatch)
    /\ bot' = Answer("Exception")
    /\ UNCHANGED <<shallow_routes, deep_routes, registered, added, others, built>>
    /\ UNCHANGED <<hook, produced, supplied>>
    /\ UNCHANGED decVars
    /\ UNCHANGED clVars

\* The headers of the requests sent to the bot.
BotHeaderSets ==
    {t @@ c @@ e :
        t \in {EmptyMap} \cup {[x \in {"x-gitlab-token"} |-> v] :
                                  v \in {"my-secret-token", "bad secret"}},
        c \in {EmptyMap} \cup {[x \in {"content-type"} |-> ct] :
                                  ct \in {[type |-> "application/json", charset |-> "utf-8"],
                                          [type |-> "image/png", charset |-> "utf-8"]}},
        e \in {EmptyMap} \cup {[x \in {"x-gitlab-event"} |-> "Issue Hook"]}}

\* The bodies of the requests sent to the bot.
BotBodies ==
    {<<"empty">>,
     <<"json", JObj(EmptyMap)>>,
     <<"json", JObj([object_attributes |-> JObj([action |-> JStr("open")])])>>,
     <<"text", "garbage">>}

\* GitLabBot(requester, secret=...) with an empty router.
BotInit ==
    /\ hook \in [headers : {EmptyMap}, body : {<<"empty">>},
                 secret : {None, Some("my-secret-token")}]
    /\ produced = None
    /\ bot = NoRequest
    /\ supplied = NoSupplied
    /\ now = 0
    /\ resp = None
    /\ out = None
    /\ RouterIdle
    /\ ClientIdle

BotNext ==
    \/ \E func \in Callbacks, object_attribute \in {<< >>, <<<<"action", "open">>>>} :
          Add(func, "Issue Hook", object_attribute)
    \/ \E headers \in BotHeaderSets, body \in BotBodies : WebhookRequest(headers, body)
    \/ HandlerDispatches
    \/ HandlerCallbackReturns
    \/ HandlerCallbackRaises

SpecBot == BotInit /\ [][BotNext]_vars

-----------------------------------------------------------------------------
(* Every verb of the client against arbitrary responses *)

\* Responses that carry a page of items, with and without a next link.
PageResponses ==
    [status : {200},
     headers : {("content-type" :> [type |-> "application/json", charset |-> "utf-8"]) @@ l :
                  l \in {EmptyMap,
                         ("link" :> <<[uri |-> Url2, param_type |-> "rel",
                                       param_value |-> "next"]>>)}},
     body : {<<"json", JList(<< >>)>>, <<"json", JList(<<JInt(1), JInt(2)>>)>>}]

\* The client with or without an access token; without a cache, or with one
\* that holds an entry for "/fake".
CallsInit ==
    /\ client \in Clients
    /\ cache \in {None, Some(Url1 :> CacheEntry(Some("e1"), None, JInt(7), None))}
    /\ rate_limit = None
    /\ frame = [t \in Tasks |-> IdleFrame]
    /\ ncalls = 0
    /\ server = NoServer
    /\ now = 1
    /\ resp = None
    /\ out = None
    /\ RouterIdle
    /\ EventIdle

CallsNext ==
    \/ Next
    \/ GetIter(1, RelUrl, EmptyMap)
    \/ \E response \in PageResponses : Receive(1, response)
    \/ IterNext(1)

SpecCalls == CallsInit /\ [][CallsNext]_vars

-----------------------------------------------------------------------------
(* _next_link on its own: one link header, read once *)

\* The entries of link headers: a url, the name of the parameter and its
\* value.
LinkEntries ==
    [uri : {Url1, Url2}, param_type : {"rel", "title"}, param_value : {"next", "prev"}]

\* The text of one entry: <uri>; name="value".
EntryText(e) ==
    <<<<"<">>, <<"uri", e.uri>>, <<">">>, <<";">>, <<" ">>, <<"w", e.param_type>>,
      <<"=">>, <<"q">>, <<"w", e.param_value>>, <<"q">>>>

\* What separates two entries: a comma, with or without a space.
Separators == {<<<<",">>>>, <<<<",">>, <<" ">>>>}

\* No link header: resp holds the entries the server wrote and the text of
\* the header, None when the response has none.
LinkInit ==
    /\ resp = [entries |-> << >>, link |-> None]
    /\ out = None
    /\ now = 0
    /\ RouterIdle
    /\ ClientIdle
    /\ EventIdle

\* The server writes one more entry to the link header of its response.
AppendEntry(e, sep) ==
    /\ Len(resp.entries) < MaxEntries
    /\ resp' = [entries |-> Append(resp.entries, e),
                link |-> IF IsNone(resp.link) THEN Some(EntryText(e))
                         ELSE Some(resp.link[1] \o sep \o EntryText(e))]
    /\ out' = None
    /\ UNCHANGED now
    /\ UNCHANGED rtVars
    /\ UNCHANGED clVars
    /\ UNCHANGED evVars

\* The server sends a link header without entries.
EmptyHeader ==
    /\ resp' = [entries |-> << >>, link |-> Some(<< >>)]
    /\ out' = None
    /\ UNCHANGED now
    /\ UNCHANGED rtVars
    /\ UNCHANGED clVars
    /\ UNCHANGED evVars

\* One call of _next_link on the header.
NextLink ==
    /\ IsNone(out)
    /\ out' = Some(next_link_of_text(resp.link))
    /\ UNCHANGED <<now, resp>>
    /\ UNCHANGED rtVars
    /\ UNCHANGED clVars
    /\ UNCHANGED evVars

LinkNext ==
    \/ \E e \in LinkEntries, sep \in Separators : AppendEntry(e, sep)
    \/ EmptyHeader
    \/ NextLink

SpecLink == LinkInit /\ [][LinkNext]_vars

-----------------------------------------------------------------------------
(* RateLimit.__bool__ on its own: one snapshot, asked as time passes *)

\* The snapshots: resp holds the RateLimit, out what bool() said last.
RateLimits ==
    {RateLimit(l, r, e) : l \in 1..2, r \in 0..2, e \in 0..MaxTime}

RateInit ==
    /\ resp \in RateLimits
    /\ now \in 0..MaxTime
    /\ out = None
    /\ RouterIdle
    /\ ClientIdle
    /\ EventIdle

\* bool(rate_limit) is evaluated.
BoolRate ==
    /\ IsNone(out)
    /\ out' = Some(RateLimitBool(resp, now))
    /\ UNCHANGED <<now, resp>>
    /\ UNCHANGED rtVars
    /\ UNCHANGED clVars
    /\ UNCHANGED evVars

\* Time passes.
RateTick ==
    /\ now < MaxTime
    /\ now' = now + 1
    /\ out' = None
    /\ UNCHANGED resp
    /\ UNCHANGED rtVars
    /\ UNCHANGED clVars
    /\ UNCHANGED evVars

\* The client sends a request: "self.rate_limit.remaining -= 1", which does
\* not stop at zero.
SpendRequest ==
    /\ resp.remaining > -1
    /\ resp' = Decrement(Some(resp))[1]
    /\ out' = None
    /\ UNCHANGED now
    /\ UNCHANGED rtVars
    /\ UNCHANGED clVars
    /\ UNCHANGED evVars

RateNext == BoolRate \/ RateTick \/ SpendRequest

SpecRate == RateInit /\ [][RateNext]_vars

-----------------------------------------------------------------------------
(* format_url on its own: one client, one url, resolved once *)

\* The url argument of GitLabAPI(...): the default, another host, and a
\* GitLab served under a path of its host.
BaseUrls ==
    {[host |-> h, lead |-> FALSE, path |-> p, query |-> EmptyMap] :
        <<h, p>> \in {<<ApiHost, << >>>>,
                      <<"https://my.gitlab.example.org", << >>>>,
                      <<"https://example.com", <<"gitlab">>>>}}

ApiVersions == {"v4", "v3"}

\* The urls handed to format_url: relative ones with and without a leading
\* slash, and absolute ones.
InputUrls ==
    [host : {""}, lead : BOOLEAN,
     path : {<<"projects">>, <<"projects", "9", "trigger", "pipeline">>},
     query : {EmptyMap, ("page" :> "1")}]
    \cup {Url1, Url2,
          [host |-> "https://gitlab.example.com", lead |-> FALSE,
           path |-> <<"api", "v4", "projects">>, query |-> EmptyMap]}

\* resp holds the client's configuration and the arguments of format_url.
UrlInit ==
    /\ resp \in [base : BaseUrls, api_version : ApiVersions, url : InputUrls,
                 params : InputParams]
    /\ out = None
    /\ now = 0
    /\ RouterIdle
    /\ ClientIdle
    /\ EventIdle

\* One call of format_url on a client built with the base and the version.
FormatUrl ==
    /\ IsNone(out)
    /\ out' = Some(format_url_at(api_url(resp.base, resp.api_version), resp.url,
                                 resp.params))
    /\ UNCHANGED <<now, resp>>
    /\ UNCHANGED rtVars
    /\ UNCHANGED clVars
    /\ UNCHANGED evVars

\* The next call: another url or other params, on the same client.
NextUrl ==
    /\ ~IsNone(out)
    /\ resp' \in {[resp EXCEPT !.url = u] : u \in InputUrls}
                 \cup {[resp EXCEPT !.params = p] : p \in InputParams}
    /\ out' = None
    /\ UNCHANGED now
    /\ UNCHANGED rtVars
    /\ UNCHANGED clVars
    /\ UNCHANGED evVars

UrlNext == FormatUrl \/ NextUrl

SpecUrl == UrlInit /\ [][UrlNext]_vars

-----------------------------------------------------------------------------
(* Two tasks that call getitem on one client for the same url *)

\* What the server answers: successes with an etag, with a last-modified and
\* a next link, without validators, a 304 and a 404.
TwoResponses ==
    LET json == ("content-type" :> [type |-> "application/json", charset |-> "utf-8"])
    IN  {[status |-> 200, headers |-> json @@ ("etag" :> "e2"),
          body |-> <<"json", JInt(42)>>],
         [status |-> 200,
          headers |-> json @@ ("last-modified" :> "m3")
                        @@ ("link" :> <<[uri |-> Url2, param_type |-> "rel",
                                         param_value |-> "next"]>>),
          body |-> <<"json", JInt(43)>>],
         [status |-> 200, headers |-> json, body |-> <<"json", JInt(44)>>],
         [status |-> 304, headers |-> ("etag" :> "e1"), body |-> <<"empty">>],
         [status |-> 404, headers |-> EmptyMap, body |-> <<"empty">>]}

\* A client with a cache: empty, or with an entry for "/fake".
TwoInit ==
    /\ client = [requester |-> "test_abc", access_token |-> Some("access token")]
    /\ cache \in {Some(EmptyMap),
                  Some(Url1 :> CacheEntry(Some("e1"), None, JInt(7), None))}
    /\ rate_limit = None
    /\ frame = [t \in Tasks |-> IdleFrame]
    /\ ncalls = 0
    /\ server = NoServer
    /\ now = 1
    /\ resp = None
    /\ out = None
    /\ RouterIdle
    /\ EventIdle

\* Task t calls getitem("/fake"), whatever the other task is doing.
ConcurrentGet(t) ==
    /\ frame[t].pc = "idle"
    /\ GetItem(t, RelUrl, EmptyMap)

\* Task t posts to "/fake", whatever the other task is doing.
ConcurrentPost(t) ==
    /\ frame[t].pc = "idle"
    /\ Post(t, RelUrl, EmptyMap, JInt(42))

TwoNext ==
    \/ \E t \in Tasks : ConcurrentGet(t)
    \/ \E t \in Tasks : ConcurrentPost(t)
    \/ \E t \in Tasks, response \in TwoResponses : Receive(t, response)
    \/ \E t \in Tasks : TransportFails(t)

SpecTwo == TwoInit /\ [][TwoNext]_vars

-----------------------------------------------------------------------------
(* The router of a GitLabBot: register_routers and the router property *)

\* Here built is the bot's _router attribute: None while the bot has none,
\* else the argument list the router was made from (empty for the router the
\* property makes); shallow_routes and deep_routes are its tables.

\* register_routers(*routers) was called and returned or raised.
RegisterRoutersCalled(raised) ==
    [func |-> "register_routers", event_type |-> "", object_attribute |-> << >>,
     raised |-> raised]

\* A register_routers that replaces the router the bot has.
RegisterRoutersReplaces(order) ==
    LET r == RouterNew([k \in 1..Len(order) |-> others[order[k]]])
    IN  /\ registered < MaxAdds
        /\ registered' = registered + 1
        /\ built' = Some(order)
        /\ shallow_routes' = r.shallow
        /\ deep_routes' = r.deep
        /\ added' = RegisterRoutersCalled("")
        /\ UNCHANGED <<dispatch, others>>
        /\ UNCHANGED decVars
        /\ UNCHANGED clVars
        /\ UNCHANGED evVars

\* bot.register_routers(*routers) with the others in the given order.
RegisterRouters(order) ==
    LET r == RouterNew([k \in 1..Len(order) |-> others[order[k]]])
    IN  /\ registered < MaxAdds
        /\ registered' = registered + 1
        /\ IF ~IsNone(built)
           THEN /\ added' = RegisterRoutersCalled("TypeError")
                /\ UNCHANGED <<built, shallow_routes, deep_routes>>
           ELSE /\ built' = Some(order)
                /\ shallow_routes' = r.shallow
                /\ deep_routes' = r.deep
                /\ added' = RegisterRoutersCalled("")
        /\ UNCHANGED <<dispatch, others>>
        /\ UNCHANGED decVars
        /\ UNCHANGED clVars
        /\ UNCHANGED evVars

\* A first read of bot.router (as webhook_handler does): the property makes
\* an empty router when the bot has none.
BotRouter ==
    /\ IsNone(built)
    /\ built' = Some(<< >>)
    /\ shallow_routes' = EmptyRouter.shallow
    /\ deep_routes' = EmptyRouter.deep
    /\ UNCHANGED <<dispatch, registered, added, others>>
    /\ UNCHANGED decVars
    /\ UNCHANGED clVars
    /\ UNCHANGED evVars

\* bot.router.register(event_type, **object_attribute)(func): the property,
\* then Router.add on the router it returns.
BotRouterRegister(func, event_type, object_attribute) ==
    LET router == IF IsNone(built)
                  THEN EmptyRouter
                  ELSE [shallow |-> shallow_routes, deep |-> deep_routes]
        r == RouterAdd(router.shallow, router.deep, func, event_type,
                       object_attribute)
    IN  /\ registered < MaxAdds
        /\ registered' = registered + 1
        /\ built' = IF IsNone(built) THEN Some(<< >>) ELSE built
        /\ shallow_routes' = r.shallow
        /\ deep_routes' = r.deep
        /\ added' = [func |-> func, event_type |-> event_type,
                     object_attribute |-> object_attribute, raised |-> r.raised]
        /\ UNCHANGED <<dispatch, others>>
        /\ UNCHANGED decVars
        /\ UNCHANGED clVars
        /\ UNCHANGED evVars

\* The argument lists of register_routers: none, one router, or two.
RegisterOrders == {<< >>, <<1>>, <<1, 2>>, <<2, 1>>}

RegisterNext ==
    \/ \E i \in Others, func \in Callbacks, object_attribute \in MergeAttributeArgs :
          AddOther(i, func, "Issue Hook", object_attribute)
    \/ \E order \in RegisterOrders : RegisterRouters(order)
    \/ BotRouter
    \/ \E func \in Callbacks, object_attribute \in MergeAttributeArgs :
          BotRouterRegister(func, "Issue Hook", object_attribute)

SpecRegister == RouterInit /\ [][RegisterNext]_vars

-----------------------------------------------------------------------------
(* The cache of a GitLabBot, handed to the client of every webhook request *)

\* GitLabBot.__init__: "self.cache = cache or cachetools.LRUCache(maxsize=500)"
\* for the argument arg, None or the mapping the caller's object holds: a
\* mapping without entries is false, so "or" yields the new LRUCache.
BotCache(arg) ==
    LET used == ~IsNone(arg) /\ arg[1] # EmptyMap
    IN  [given |-> ~IsNone(arg),
         used |-> used,
         apart |-> IF ~IsNone(arg) /\ ~used THEN arg[1] ELSE EmptyMap,
         cache |-> IF used THEN arg ELSE Some(EmptyMap)]

\* The cache arguments: none, an empty mapping, and one that holds an entry.
CacheArguments ==
    {None, Some(EmptyMap), Some(Url1 :> CacheEntry(Some("e1"), None, JInt(7), None))}

\* bot = GitLabBot("test_abc", cache=arg).
CacheInit ==
    /\ \E arg \in CacheArguments :
          /\ supplied = [given |-> BotCache(arg).given, used |-> BotCache(arg).used,
                         apart |-> BotCache(arg).apart]
          /\ cache = BotCache(arg).cache
    /\ client = [requester |-> "test_abc", access_token |-> None]
    /\ rate_limit = None
    /\ frame = [t \in Tasks |-> IdleFrame]
    /\ ncalls = 0
    /\ server = NoServer
    /\ hook = NoHook
    /\ produced = None
    /\ bot = NoRequest
    /\ now = 1
    /\ resp = None
    /\ out = None
    /\ RouterIdle

\* webhook_handler makes the GitLabAPI of the request, "cache=self.cache" and
\* no rate limit yet, and the callback of the event calls gl.getitem(url).
WebhookGetItem(url) ==
    /\ frame[1].pc \in {"idle", "returned", "raised"}
    /\ ncalls < MaxCalls
    /\ ncalls' = ncalls + 1
    /\ frame' = [frame EXCEPT ![1] =
                    BeginExchange([IdleFrame EXCEPT !.verb = "getitem"],
                                  client, cache, None, "GET", url, EmptyMap, NoData)]
    /\ rate_limit' = None
    /\ UNCHANGED <<client, cache, server>>
    /\ UNCHANGED decVars
    /\ UNCHANGED rtVars
    /\ UNCHANGED evVars

\* The caller puts an entry for url in the mapping handed to the bot.
CallerStores(url) ==
    LET entry == CacheEntry(Some("e0"), None, JInt(0), None)
    IN  /\ supplied.given
        /\ IF supplied.used
           THEN /\ cache' = CacheStore(cache, url, entry)
                /\ UNCHANGED supplied
           ELSE /\ supplied' = [supplied EXCEPT !.apart = (url :> entry) @@ @]
                /\ UNCHANGED cache
        /\ UNCHANGED <<client, rate_limit, frame, ncalls, server>>
        /\ UNCHANGED <<hook, produced, bot>>
        /\ UNCHANGED decVars
        /\ UNCHANGED rtVars

BotCacheNext ==
    \/ \E url \in {Url1, Url2} : WebhookGetItem(url)
    \/ \E response \in Responses : Receive(1, response)
    \/ CallerStores(Url2)

SpecBotCache == CacheInit /\ [][BotCacheNext]_vars

-----------------------------------------------------------------------------
(* Two tasks on one client whose cache may drop entries *)

\* The cache is any MutableMapping the caller handed over: one with a bound
\* or a time to live drops the entry of url on its own.
Evict(url) ==
    /\ ~IsNone(cache)
    /\ url \in DOMAIN cache[1]
    /\ cache' = Some([u \in DOMAIN cache[1] \ {url} |-> cache[1][u]])
    /\ UNCHANGED <<client, rate_limit, frame, ncalls, server>>
    /\ UNCHANGED decVars
    /\ UNCHANGED rtVars
    /\ UNCHANGED evVars

EvictNext ==
    \/ TwoNext
    \/ Evict(Url1)

SpecEvict == TwoInit /\ [][EvictNext]_vars

-----------------------------------------------------------------------------
(* A client that spends its rate limit on requests that bring no new one *)

\* The response of the call before: a success whose headers gave the
\* client the snapshot it holds.
SnapshotResponses ==
    [status : {200},
     headers : {("ratelimit-limit" :> 2) @@ ("ratelimit-remaining" :> r)
                    @@ ("ratelimit-reset" :> 2) : r \in 0..2},
     body : {<<"empty">>}]

\* What the transport answers: 304, errors with and without rate-limit
\* headers of their own, among them a 403 for an exhausted quota.
SpendResponses ==
    {[status |-> 304, headers |-> ("etag" :> "e1"), body |-> <<"empty">>],
     [status |-> 404, headers |-> EmptyMap, body |-> <<"empty">>],
     [status |-> 500,
      headers |-> ("ratelimit-limit" :> 2) @@ ("ratelimit-remaining" :> 2)
                    @@ ("ratelimit-reset" :> 2),
      body |-> <<"empty">>],
     [status |-> 403,
      headers |-> ("ratelimit-limit" :> 2) @@ ("ratelimit-remaining" :> 0)
                    @@ ("ratelimit-reset" :> 0),
      body |-> <<"empty">>]}

\* The client after that call: its snapshot is the one of the response, its
\* cache holds an entry for "/fake".
SpendInit ==
    /\ resp \in SnapshotResponses
    /\ rate_limit = RateLimitFromHttp(resp.headers)
    /\ client = [requester |-> "test_abc", access_token |-> Some("access token")]
    /\ cache = Some(Url1 :> CacheEntry(Some("e1"), None, JInt(7), None))
    /\ frame = [t \in Tasks |-> IdleFrame]
    /\ ncalls = 0
    /\ server = NoServer
    /\ now = 1
    /\ out = None
    /\ RouterIdle
    /\ EventIdle

SpendNext ==
    \/ \E url \in {RelUrl, Url2} : GetItem(1, url, EmptyMap)
    \/ Post(1, RelUrl, EmptyMap, JInt(42))
    \/ Delete(1, RelUrl, EmptyMap, NoData)
    \/ \E response \in SpendResponses : Receive(1, response)

SpecSpend == SpendInit /\ [][SpendNext]_vars

-----
(* Claims about the client *)

\* The only task of Spec and SpecIter.
F == frame[1]

\* The exchange of the call got a response (the transport did not fail).
Answered == F.pc \in {"returned", "raised"} /\ ~IsNone(F.response)

\* The request was cache-eligible: a GET without body on a client with a cache.
CacheEligible ==
    /\ ~IsNone(F.rq)
    /\ F.rq[1].method = "GET"
    /\ F.rq[1].body = <<"empty">>
    /\ ~IsNone(F.cache_before)

\* The cache held an entry for the resolved url when the request was built.
FoundEntry == CacheEligible /\ F.rq[1].filled_url \in DOMAIN F.cache_before[1]

\* The response is one decipher_response returns for.
SuccessResponse ==
    /\ Answered
    /\ F.response[1].status \in {200, 201, 202, 204}

\* C3 as stated: after every request that got a response (success, 304 cache
\* hit or HTTP error) the client's rate_limit is the RateLimit of that
\* response's headers.
C3_RateLimitAlwaysOverwritten ==
    Answered => rate_limit = RateLimitFromHttp(F.response[1].headers)

\* C3 as amended: rate_limit is the RateLimit of the response's headers (absent
\* when they carry none) after a request whose response was deciphered as a
\* success; after a 304 cache hit or a response raised as an HTTP error it is
\* not overwritten: it is the snapshot held before the call with remaining
\* one less, or still absent.
C3_RateLimitOverwrittenOnSuccess ==
    Answered =>
        IF SuccessResponse
        THEN rate_limit = RateLimitFromHttp(F.response[1].headers)
        ELSE rate_limit = Decrement(F.rate_before)

\* A success response with rate-limit headers replaced an older snapshot.
C3_Witness ==
    /\ SuccessResponse
    /\ ~IsNone(F.rate_before)
    /\ ~IsNone(rate_limit)
    /\ rate_limit # Decrement(F.rate_before)

\* C6: a cache-eligible GET that found an entry for its url and is answered
\* 304 returns the cached payload and the cached next page, raises nothing,
\* and leaves the cache as it was.
C6_CacheHit ==
    (Answered /\ FoundEntry /\ F.response[1].status = 304) =>
        LET entry == F.cache_before[1][F.rq[1].filled_url]
        IN  /\ F.pc = "returned"
            /\ F.result[1].kind = "return"
            /\ F.result[1].data = entry.data
            /\ F.result[1].more = entry.more
            /\ cache = F.cache_before

\* A 304 answered a request built from an entry that stores a next page.
C6_Witness ==
    /\ Answered
    /\ FoundEntry
    /\ F.response[1].status = 304
    /\ ~IsNone(F.result[1].more)

\* C7: after a cache-eligible GET answered by a success that carries an etag
\* or a last-modified header, the entry of the resolved url is (etag or
\* absent, last-modified or absent, decoded payload, next page of that
\* response), cached before or not, and the value returned is the stored
\* payload.
C7_CacheUpsert ==
    (SuccessResponse /\ CacheEligible
        /\ ("etag" \in DOMAIN F.response[1].headers
            \/ "last-modified" \in DOMAIN F.response[1].headers)) =>
        LET h == F.response[1].headers
            url == F.rq[1].filled_url
        IN  /\ F.pc = "returned"
            /\ url \in DOMAIN cache[1]
            /\ cache[1][url] =
                  CacheEntry(Get(h, "etag"), Get(h, "last-modified"),
                             decode_body(Get(h, "content-type"), F.response[1].body,
                                         FALSE).value,
                             next_link(Get(h, "link")))
            /\ F.result[1].data = cache[1][url].data
            /\ \A u \in DOMAIN F.cache_before[1] \ {url} :
                  u \in DOMAIN cache[1] /\ cache[1][u] = F.cache_before[1][u]

\* A success with new validators replaced the entry of a cached url.
C7_Witness ==
    /\ SuccessResponse
    /\ FoundEntry
    /\ "etag" \in DOMAIN F.response[1].headers
    /\ cache[1][F.rq[1].filled_url] # F.cache_before[1][F.rq[1].filled_url]

\* C8: a request carries if-none-match exactly when it is cache-eligible, its
\* url has a cache entry and the entry's etag is present, the value being
\* that etag; it carries if-modified-since exactly when the entry's
\* last-modified is present, the value being that last-modified.
C8_ConditionalHeaders ==
    ~IsNone(F.rq) =>
        LET h == F.rq[1].headers
            url == F.rq[1].filled_url
        IN  /\ "if-none-match" \in DOMAIN h <=>
                  (FoundEntry /\ ~IsNone(F.cache_before[1][url].etag))
            /\ "if-none-match" \in DOMAIN h =>
                  h["if-none-match"] = F.cache_before[1][url].etag[1]
            /\ "if-modified-since" \in DOMAIN h <=>
                  (FoundEntry /\ ~IsNone(F.cache_before[1][url].last_modified))
            /\ "if-modified-since" \in DOMAIN h =>
                  h["if-modified-since"] = F.cache_before[1][url].last_modified[1]

\* A request was sent with both conditional headers.
C8_Witness ==
    /\ F.pc = "awaiting"
    /\ "if-none-match" \in DOMAIN F.rq[1].headers
    /\ "if-modified-since" \in DOMAIN F.rq[1].headers

\* C9: a request that is not cache-eligible (not a GET, or a GET with a body,
\* or a client without cache) neither reads nor writes the cache: while it
\* runs and after it the cache is what it was before, whatever validators
\* the response carries.
C9_IneligibleLeavesCache ==
    (~IsNone(F.rq) /\ ~CacheEligible) =>
        /\ F.reads = 0
        /\ F.writes = 0
        /\ cache = F.cache_before
        /\ "if-none-match" \notin DOMAIN F.rq[1].headers
        /\ "if-modified-since" \notin DOMAIN F.rq[1].headers

\* A request with a body on a client with a cache was answered by a success
\* that carries an etag.
C9_Witness ==
    /\ SuccessResponse
    /\ ~CacheEligible
    /\ ~IsNone(F.cache_before)
    /\ F.cache_before # Some(EmptyMap)
    /\ "etag" \in DOMAIN F.response[1].headers

\* C10: a failed exchange does not change the cache: when the transport fails
\* or the response is raised as an HTTP error, the cache after the call is
\* the cache before it.
C10_FailureLeavesCache ==
    F.pc = "raised" =>
        /\ cache = F.cache_before
        /\ F.writes = 0

\* A cache-eligible GET was answered by an HTTP error that carries an etag.
C10_Witness ==
    /\ F.pc = "raised"
    /\ CacheEligible
    /\ ~IsNone(F.response)
    /\ F.response[1].status >= 400
    /\ "etag" \in DOMAIN F.response[1].headers

-----------------------------------------------------------------------------
(* Claims about getiter *)

\* The items getiter yielded so far, in order.
Yielded(trace) ==
    LET ys == SelectSeq(trace, LAMBDA e : e[1] = "yield")
    IN  [i \in 1..Len(ys) |-> ys[i][2]]

\* The payloads of the pages getiter received so far, in order.
PagesReceived(trace) ==
    LET ps == SelectSeq(trace, LAMBDA e : e[1] = "page")
    IN  [i \in 1..Len(ps) |-> ps[i][2]]

\* The concatenation of the pages i.. of a sequence of pages.
RECURSIVE Flatten(_, _)
Flatten(pages, i) == IF i > Len(pages) THEN << >> ELSE pages[i] \o Flatten(pages, i + 1)

\* The items of the server's chain, page 1 first.
ChainItems == Flatten([k \in 1..server.npages |-> PageItems(server, k)], 1)

IsPrefix(a, b) == Len(a) <= Len(b) /\ a = SubSeq(b, 1, Len(a))

\* A follow-up exchange of getiter is with the transport.
FollowUpSent == F.verb = "getiter" /\ F.pc = "awaiting" /\ F.nexchanges > 1

\* C4: every follow-up exchange of getiter targets the next-page url of the
\* preceding response, with the vars applied and the query parameters of
\* that url kept, so that against a chain of pages getiter makes one exchange
\* for each page, whatever the vars.
C4_FollowUpTargetsNextPage ==
    /\ FollowUpSent =>
          LET url == F.rq[1].filled_url
              next == F.more[1]
          IN  /\ url.host = next.host
              /\ url.path = next.path
              /\ \A k \in DOMAIN F.params :
                    k \in DOMAIN url.query /\ url.query[k] = F.params[k]
              /\ \A k \in DOMAIN next.query :
                    k \in DOMAIN url.query /\ url.query[k] = next.query[k]
    /\ F.verb = "getiter" => F.nexchanges <= server.npages

\* C5: getiter yields the items of page 1 in payload order, then those of each
\* following linked page in link order, nothing dropped, duplicated or
\* reordered, and it issues the exchange for the next page only when every
\* item of the pages before was yielded.
C5_YieldsChainInOrder ==
    F.verb = "getiter" =>
        /\ IsPrefix(Yielded(F.trace), ChainItems)
        /\ F.pc = "exhausted" => Yielded(F.trace) = ChainItems
        /\ \A i \in 1..Len(F.trace) :
              F.trace[i][1] = "send" =>
                  Yielded(SubSeq(F.trace, 1, i)) =
                      Flatten(PagesReceived(SubSeq(F.trace, 1, i)), 1)

-----------------------------------------------------------------------------
(* Claims about the decoder *)

\* The response is a 403 whose body decodes.
Deciphered403 ==
    /\ ~IsNone(out)
    /\ resp.status = 403
    /\ decode_body(Get(resp.headers, "content-type"), resp.body, FALSE).raised = ""

\* C1: a 403 whose headers give ratelimit-remaining = 0 raises
\* RateLimitExceeded carrying the snapshot parsed from the headers, wherever
\* the reset instant lies relative to the clock; a 403 with remaining > 0 or
\* without rate-limit headers raises plain BadRequest.
C1_RateLimitExceededOn403 ==
    Deciphered403 =>
        LET rl == RateLimitFromHttp(resp.headers)
        IN  IF ~IsNone(rl) /\ rl[1].remaining = 0
            THEN /\ out[1].exc = "RateLimitExceeded"
                 /\ out[1].rate_limit = rl
            ELSE out[1].exc = "BadRequest"

\* The body of the response decodes (json.loads does not fail on it).
DecodableBody ==
    decode_body(Get(resp.headers, "content-type"), resp.body, FALSE).raised = ""

\* The decoded body of the response.
DecodedData == decode_body(Get(resp.headers, "content-type"), resp.body, FALSE).value

\* The statuses decipher_response returns for.
SuccessStatuses == {200, 201, 202, 204}

\* The rate-limit headers.
RateHeaders == {"ratelimit-limit", "ratelimit-remaining", "ratelimit-reset"}

\* C11: for every status outside 200, 201, 202, 204, decipher_response raises
\* one typed error whose status_code is that status: GitLabBroken from 500,
\* BadRequest or one of its specializations from 400 to 499,
\* RedirectionException from 300 to 399, HTTPException for the rest.
C11_TypedErrorByRange ==
    (~IsNone(out) /\ DecodableBody /\ resp.status \notin SuccessStatuses) =>
        /\ out[1].kind = "raise"
        /\ out[1].status = resp.status
        /\ out[1].exc \in
              (IF resp.status >= 500 THEN {"GitLabBroken"}
               ELSE IF resp.status >= 400
               THEN {"BadRequest", "RateLimitExceeded", "InvalidField"}
               ELSE IF resp.status >= 300 THEN {"RedirectionException"}
               ELSE {"HTTPException"})

\* C12: given a body that decodes, decipher_response returns the triple
\* (decoded data, RateLimit or absent, next page or absent) exactly for the
\* statuses 200, 201, 202 and 204 and raises for every other one, 205
\* included; the RateLimit of the triple is absent exactly when one of the
\* three rate-limit headers is missing.
C12_ReturnsOnSuccessStatuses ==
    (~IsNone(out) /\ DecodableBody) =>
        /\ out[1].kind = "return" <=> resp.status \in SuccessStatuses
        /\ out[1].kind \in {"return", "raise"}
        /\ out[1].kind = "return" =>
              /\ out[1].data = DecodedData
              /\ IsNone(out[1].rate_limit) <=> ~(RateHeaders \subseteq DOMAIN resp.headers)
              /\ ~IsNone(out[1].rate_limit) =>
                    /\ out[1].rate_limit[1].limit = resp.headers["ratelimit-limit"]
                    /\ out[1].rate_limit[1].remaining = resp.headers["ratelimit-remaining"]
                    /\ out[1].rate_limit[1].reset_datetime = resp.headers["ratelimit-reset"]

\* A 202 was returned without RateLimit because only the reset header was
\* missing.
C12_Witness ==
    /\ ~IsNone(out)
    /\ resp.status = 202
    /\ out[1].kind = "return"
    /\ IsNone(out[1].rate_limit)
    /\ DOMAIN resp.headers \cap RateHeaders = {"ratelimit-limit", "ratelimit-remaining"}

\* C13: every 422, whatever its body, raises InvalidField with status 422
\* carrying the errors list of the body (absent when it has none); the
\* message is "<message> for <fields>" when the errors list is not empty and
\* the message of the body otherwise.
C13_InvalidFieldOn422 ==
    (~IsNone(out) /\ DecodableBody /\ resp.status = 422) =>
        LET data == DecodedData
            isobj == data[1] = "obj"
            errors == IF isobj THEN Get(data[2], "errors") ELSE None
            message == IF isobj THEN Get(data[2], "message") ELSE None
        IN  /\ out[1].exc = "InvalidField"
            /\ out[1].status = 422
            /\ out[1].errors = errors
            /\ (~IsNone(errors) /\ Truthy(errors[1])) =>
                  out[1].args = <<<<"for", message, FieldsOf(errors[1][2])>>>>
            /\ (~(~IsNone(errors) /\ Truthy(errors[1])) /\ ~IsNone(message)) =>
                  out[1].args = <<message[1]>>

-----------------------------------------------------------------------------
(* Claims about the webhook event *)

\* The request carries the token header.
HasToken == "x-gitlab-token" \in DOMAIN hook.headers

\* The request passes the validation of its token.
ValidationPasses ==
    \/ ~HasToken /\ IsNone(hook.secret)
    \/ HasToken /\ ~IsNone(hook.secret) /\ hook.headers["x-gitlab-token"] = hook.secret[1]

\* from_http raised the exception exc.
FromHttpRaised(exc) == produced[1].kind = "raise" /\ produced[1].exc = exc

\* C14: from_http passes the validation exactly when the token header is
\* absent and no secret is configured, or the header is present, a secret is
\* configured and the two are equal; an event it then produces has that
\* secret (None in the first case).  In every other combination it raises
\* ValidationFailure and produces no event.
C14_ValidationExactlyTwoCases ==
    ~IsNone(produced) =>
        /\ FromHttpRaised("ValidationFailure") <=> ~ValidationPasses
        /\ produced[1].kind = "event" =>
              /\ ValidationPasses
              /\ produced[1].secret = hook.secret
              /\ ~HasToken => IsNone(produced[1].secret)

\* An event was produced for a request whose token equals the secret.
C14_Witness ==
    /\ ~IsNone(produced)
    /\ produced[1].kind = "event"
    /\ HasToken
    /\ produced[1].secret = Some("my-secret-token")

\* The content type of the request is one from_http decodes.
AcceptedContentType ==
    /\ "content-type" \in DOMAIN hook.headers
    /\ hook.headers["content-type"].type \in
          {"application/json", "application/x-www-form-urlencoded"}

\* C15: for a request that passes the validation, from_http produces an
\* event only when the content type is application/json or
\* application/x-www-form-urlencoded; any other content type, or none, fails
\* with BadRequest of status 415, whatever the body, an empty one included.
C15_OtherContentTypeIs415 ==
    (~IsNone(produced) /\ ValidationPasses) =>
        /\ produced[1].kind = "event" => AcceptedContentType
        /\ ~AcceptedContentType =>
              FromHttpRaised("BadRequest") /\ produced[1].status = 415

-----------------------------------------------------------------------------
(* Claims about the tables of the router *)

\* The shallow list of an event type, empty when the type has none.
ShallowList(shallow, event_type) ==
    IF event_type \in DOMAIN shallow THEN shallow[event_type] ELSE << >>

\* The deep bucket (event_type, key, value), empty when there is none.
Bucket(deep, event_type, key, value) ==
    IF event_type \in DOMAIN deep
    THEN LET hits == {i \in 1..Len(deep[event_type]) :
                         /\ deep[event_type][i].key = key
                         /\ value \in DOMAIN deep[event_type][i].values}
         IN  IF hits = {} THEN << >>
             ELSE deep[event_type][CHOOSE i \in hits : TRUE].values[value]
    ELSE << >>

\* The keys and the values of the attribute constraints of the model.
AttributeKeys == {a[i][1] : i \in 1..2, a \in {b \in AttributeArgs : Len(b) = 2}}
                     \cup {a[1][1] : a \in {b \in AttributeArgs : Len(b) = 1}}
AttributeValues == {a[i][2] : i \in 1..2, a \in {b \in AttributeArgs : Len(b) = 2}}
                       \cup {a[1][2] : a \in {b \in AttributeArgs : Len(b) = 1}}

\* C18: Router.add with more than one attribute constraint raises TypeError
\* and leaves both tables as they were; with none it appends the callback to
\* the shallow list of the event type and changes nothing else; with one it
\* appends the callback to the deep bucket (event type, key, value) and
\* changes nothing else.
C18_AddRegistersInOneBucket ==
    [][registered' = registered + 1 =>
          LET a == added'
              n == Len(a.object_attribute)
          IN  /\ a.raised = (IF n > 1 THEN "TypeError" ELSE "")
              /\ n > 1 => shallow_routes' = shallow_routes /\ deep_routes' = deep_routes
              /\ n = 0 =>
                    /\ deep_routes' = deep_routes
                    /\ \A t \in EventTypes :
                          ShallowList(shallow_routes', t) =
                              IF t = a.event_type
                              THEN Append(ShallowList(shallow_routes, t), a.func)
                              ELSE ShallowList(shallow_routes, t)
              /\ n = 1 =>
                    /\ shallow_routes' = shallow_routes
                    /\ \A t \in EventTypes, k \in AttributeKeys, v \in AttributeValues :
                          Bucket(deep_routes', t, k, v) =
                              IF <<t, k, v>> = <<a.event_type, a.object_attribute[1][1],
                                                a.object_attribute[1][2]>>
                              THEN Append(Bucket(deep_routes, t, k, v), a.func)
                              ELSE Bucket(deep_routes, t, k, v)]_vars

\* Router.add was called with two constraints after callbacks were registered
\* in both tables.
C18_Witness ==
    /\ Len(added.object_attribute) = 2
    /\ added.raised = "TypeError"
    /\ shallow_routes # EmptyMap
    /\ deep_routes # EmptyMap

-----------------------------------------------------------------------------
(* Claims about what dispatch collects and invokes *)

\* The step in which Router.dispatch is called.
DispatchStarts ==
    /\ dispatch.pc # "in_callback"
    /\ registered' = registered
    /\ dispatch'.pc # "idle"
    /\ dispatch'.idx = 1

\* The elements of a sequence.
Range(q) == {q[i] : i \in 1..Len(q)}

\* How many times f occurs in a sequence.
Count(f, q) == Cardinality({i \in 1..Len(q) : q[i] = f})

\* The object_attributes of an event, empty when it has none.
AttributesOf(ev) ==
    IF "object_attributes" \in DOMAIN ev.data THEN ev.data["object_attributes"] ELSE EmptyMap

\* The callbacks of the tables that match the event: the shallow ones of its
\* type, and the deep ones of a bucket (type, key, value) whose key the event
\* has with that value.
MatchingCallbacks(shallow, deep, ev) ==
    Range(ShallowList(shallow, ev.event))
        \cup UNION {Range(Bucket(deep, ev.event, k, AttributesOf(ev)[k])) :
                       k \in DOMAIN AttributesOf(ev)}

MatchedBucket(entries, ev, i) ==
    IF /\ entries[i].key \in DOMAIN AttributesOf(ev)
       /\ AttributesOf(ev)[entries[i].key] \in DOMAIN entries[i].values
    THEN entries[i].values[AttributesOf(ev)[entries[i].key]]
    ELSE << >>

\* The number of callbacks in the matched buckets of the first n keys.
RECURSIVE MatchedBefore(_, _, _)
MatchedBefore(entries, ev, n) ==
    IF n = 0 THEN 0
    ELSE MatchedBefore(entries, ev, n - 1) + Len(MatchedBucket(entries, ev, n))

\* found lists the shallow callbacks of the event's type in the order of their
\* list, then bucket after bucket the matched deep ones in the order of
\* their bucket.
InCollectionOrder(found, shallow, deep, ev) ==
    LET sh == ShallowList(shallow, ev.event)
        entries == IF ev.event \in DOMAIN deep THEN deep[ev.event] ELSE << >>
    IN  /\ Len(found) = Len(sh) + MatchedBefore(entries, ev, Len(entries))
        /\ \A k \in 1..Len(sh) : found[k] = sh[k]
        /\ \A i \in 1..Len(entries) :
              \A k \in 1..Len(MatchedBucket(entries, ev, i)) :
                  found[Len(sh) + MatchedBefore(entries, ev, i - 1) + k] =
                      MatchedBucket(entries, ev, i)[k]

\* C17: dispatch invokes the matched callbacks one at a time in collection
\* order: the shallow ones first in registration order, then the deep ones,
\* those of one bucket in registration order; a callback is started only
\* when the one before it has completed.
C17_OneAtATimeInCollectionOrder ==
    /\ [][DispatchStarts =>
             InCollectionOrder(dispatch'.found, shallow_routes, deep_routes,
                               dispatch'.event)]_vars
    /\ [](dispatch.invoked = SubSeq(dispatch.found, 1, Len(dispatch.invoked)))
    /\ [](dispatch.pc = "in_callback" => Len(dispatch.invoked) = dispatch.idx)
    /\ [][(dispatch.pc = "in_callback" /\ dispatch' # dispatch) =>
             \/ dispatch'.pc = "raised" /\ dispatch'.invoked = dispatch.invoked
             \/ dispatch'.pc = "returned" /\ dispatch'.invoked = dispatch.invoked
             \/ /\ dispatch'.pc = "in_callback"
                /\ dispatch'.invoked =
                      Append(dispatch.invoked, dispatch.found[dispatch.idx + 1])]_vars

\* A dispatch invoked one shallow callback followed by two deep ones.
C17_Witness ==
    /\ dispatch.pc = "returned"
    /\ Len(dispatch.invoked) = 3
    /\ Len(ShallowList(shallow_routes, dispatch.event.event)) = 1
    /\ dispatch.invoked[1] # dispatch.invoked[2]

\* How many times f stands in the buckets of the tables that match the event.
Registrations(f, shallow, deep, ev) ==
    Count(f, ShallowList(shallow, ev.event))
        + Cardinality({p \in (DOMAIN AttributesOf(ev)) \X (1..MaxAdds + 1) :
                          LET b == Bucket(deep, ev.event, p[1], AttributesOf(ev)[p[1]])
                          IN  p[2] <= Len(b) /\ b[p[2]] = f})

-----------------------------------------------------------------------------
(* Claims about a router built from other routers *)

\* The lists the other routers hold for one bucket, one after the other in
\* the order of the arguments.
SourcesShallow(order, t) ==
    Flatten([j \in 1..Len(order) |-> ShallowList(others[order[j]].shallow, t)], 1)

SourcesBucket(order, t, k, v) ==
    Flatten([j \in 1..Len(order) |-> Bucket(others[order[j]].deep, t, k, v)], 1)

\* How many times the other routers together find f for the event.
RECURSIVE SourcesFind(_, _, _, _)
SourcesFind(order, j, f, ev) ==
    IF j > Len(order) THEN 0
    ELSE Count(f, FoundCallbacks(others[order[j]].shallow, others[order[j]].deep, ev))
             + SourcesFind(order, j + 1, f, ev)

\* C19: a router built from other routers holds, for every shallow and every
\* deep bucket, the lists of the other routers for that bucket one after the
\* other in the order of the arguments, each in its registration order, so
\* that it finds for every event the callbacks the others find; building it
\* leaves the tables of the others as they were, and so does a later
\* registration on it.
C19_MergeConcatenatesBuckets ==
    /\ [][(built = << >> /\ built' # << >>) =>
             /\ others' = others
             /\ \A t \in EventTypes :
                   ShallowList(shallow_routes', t) = SourcesShallow(built', t)
             /\ \A t \in EventTypes, k \in AttributeKeys, v \in AttributeValues :
                   Bucket(deep_routes', t, k, v) = SourcesBucket(built', t, k, v)
             /\ \A ev \in Events, f \in Callbacks :
                   Count(f, FoundCallbacks(shallow_routes', deep_routes', ev)) =
                       SourcesFind(built', 1, f, ev)]_vars
    /\ [][(built # << >> /\ <<shallow_routes, deep_routes>>' # <<shallow_routes, deep_routes>>) =>
             others' = others]_vars

\* A router was built from two routers that hold different callbacks for the
\* same bucket, the second argument first registered, and a callback was
\* registered on it afterwards.
C19_Witness ==
    /\ built = <<2, 1>>
    /\ ShallowList(others[1].shallow, "Issue Hook") = <<"f">>
    /\ ShallowList(others[2].shallow, "Issue Hook") = <<"g">>
    /\ ShallowList(shallow_routes, "Issue Hook") = <<"g", "f", "f">>

-----------------------------------------------------------------------------
(* Claims about the webhook receiver *)

\* webhook_handler returned a response to the last request.
Answered21 == bot.pc = "answered"

\* The request carries the x-gitlab-event header.
HasEventType == "x-gitlab-event" \in DOMAIN hook.headers

\* A callback of the handler's dispatch failed.
CallbackFailed == dispatch.pc = "raised" /\ dispatch.failed > 0

\* C21: every POST / is answered with 200 when validation, decoding and
\* dispatch all complete and with 500 when one of them fails: a bad or missing
\* token, a missing event-type header, an unacceptable content type, a failing
\* callback; no failure leaves the handler.
C21_AnswersByOutcome ==
    Answered21 =>
        /\ bot.propagated = ""
        /\ bot.status \in {200, 500}
        /\ bot.status = 200 <=>
              /\ produced[1].kind = "event"
              /\ dispatch.pc = "returned"
        /\ (\/ ~ValidationPasses
            \/ ~HasEventType
            \/ ~AcceptedContentType
            \/ CallbackFailed) => bot.status = 500

-----------------------------------------------------------------------------
(* Claims about the exchanges a call makes *)

\* How many times the call invoked the transport's _request so far.
Exchanges == Len(SelectSeq(F.trace, LAMBDA e : e[1] = "send"))

\* The call raised an HTTP error to its caller.
RaisedHTTPError ==
    /\ F.pc = "raised"
    /\ ~IsNone(F.response)
    /\ F.result[1].kind = "raise"
    /\ F.result[1].status = F.response[1].status

\* C22: no retry.  A call of getitem, post, patch, put, delete invokes the
\* transport once, whatever the response (success, 304 or error); getiter
\* invokes it once for each page it received, plus the exchange in flight or
\* the one that failed; an HTTP error is raised right after the exchange that
\* got it.
C22_OneExchangePerCall ==
    /\ F.nexchanges = Exchanges
    /\ (F.verb \in {"getitem", "post", "patch", "put", "delete", "_make_request"}
           /\ F.pc \in {"awaiting", "returned", "raised"}) => Exchanges = 1
    /\ F.verb = "getiter" =>
          Exchanges = Len(PagesReceived(F.trace))
                         + (IF F.pc \in {"awaiting", "raised"} THEN 1 ELSE 0)
    /\ RaisedHTTPError => F.trace[Len(F.trace)][1] = "send"

\* getiter received a page, asked for the next one and got an HTTP error,
\* which it raised after two exchanges.
C22_Witness ==
    /\ F.verb = "getiter"
    /\ RaisedHTTPError
    /\ F.response[1].status = 500
    /\ Exchanges = 2

-----------------------------------------------------------------------------
(* Claims about the next link *)

\* The positions of the entries of the header whose relation is next.
NextEntries ==
    {i \in 1..Len(resp.entries) :
        resp.entries[i].param_type = "rel" /\ resp.entries[i].param_value = "next"}

\* C23: the next-page url read from a link header of entries <uri>;
\* rel="value" is the uri of the first entry whose rel is next; entries of
\* another relation or another parameter name are ignored; there is none
\* when the header is missing or has no such entry.
C23_FirstNextEntry ==
    ~IsNone(out) =>
        IF NextEntries = {}
        THEN out[1] = None
        ELSE LET first == CHOOSE i \in NextEntries : \A j \in NextEntries : i <= j
             IN  out[1] = Some(resp.entries[first].uri)

\* The header has an entry title="next", then two entries rel="next" of
\* different urls, and the first of these was returned.
C23_Witness ==
    /\ ~IsNone(out)
    /\ Len(resp.entries) = 3
    /\ resp.entries[1].param_type = "title" /\ resp.entries[1].param_value = "next"
    /\ NextEntries = {2, 3}
    /\ resp.entries[2].uri # resp.entries[3].uri
    /\ out[1] = Some(resp.entries[2].uri)

-----------------------------------------------------------------------------
(* Claims about the data of a request *)

\* The request the call built.
Rq == F.rq[1]

\* The request has the empty body of a call without data.
SentWithoutBody ==
    /\ Rq.body = <<"empty">>
    /\ Rq.headers["content-length"] = 0
    /\ "content-type" \notin DOMAIN Rq.headers

\* C24: the str "" passed as data stands for no data: the request has an
\* empty body, content-length 0 and no content-type, and a GET made this way
\* on a client with a cache is cache-eligible.
C24_EmptyStringIsNoData ==
    (~IsNone(F.rq) /\ Rq.data = EmptyStr) =>
        /\ SentWithoutBody
        /\ (Rq.method = "GET" /\ ~IsNone(F.cache_before)) => Rq.cacheable

-----------------------------------------------------------------------------
(* Claims about the headers of a request *)

\* The header names _make_request and create_headers write, all lowercase.
LowercaseNames ==
    {"user-agent", "accept", "private-token", "content-type", "content-length",
     "if-none-match", "if-modified-since"}

\* The names among them that are not about the identity of the requester.
BodyAndCacheNames ==
    {"accept", "content-type", "content-length", "if-none-match", "if-modified-since"}

\* C26: every request sent carries user-agent equal to the requester
\* configured and accept: application/json; it carries private-token, equal
\* to the access token, exactly when a token is configured; the header names
\* are lowercase and no other header identifies the requester.
C26_IdentityHeaders ==
    ~IsNone(F.rq) =>
        /\ Rq.headers["user-agent"] = client.requester
        /\ Rq.headers["accept"] = "application/json"
        /\ "private-token" \in DOMAIN Rq.headers <=> ~IsNone(client.access_token)
        /\ ~IsNone(client.access_token) =>
              Rq.headers["private-token"] = client.access_token[1]
        /\ DOMAIN Rq.headers \subseteq LowercaseNames
        /\ DOMAIN Rq.headers \ BodyAndCacheNames \subseteq {"user-agent", "private-token"}

\* A client without token sent a conditional GET: it has the validator and
\* the user agent, and no private-token.
C26_Witness ==
    /\ ~IsNone(F.rq)
    /\ IsNone(client.access_token)
    /\ "if-none-match" \in DOMAIN Rq.headers
    /\ Rq.headers["user-agent"] = "test_abc"
    /\ "private-token" \notin DOMAIN Rq.headers

-----------------------------------------------------------------------------
(* Claims about the truth value of a RateLimit *)

\* C27: a RateLimit is truthy exactly when remaining > 0 or the clock is
\* strictly after the reset instant, and falsy exactly when remaining <= 0
\* and the reset instant has not passed.
C27_TruthyWhenRemainingOrReset ==
    ~IsNone(out) =>
        /\ out[1] = TRUE <=> (resp.remaining > 0 \/ now > resp.reset_datetime)
        /\ out[1] = FALSE <=> (resp.remaining <= 0 /\ now <= resp.reset_datetime)

\* A snapshot spent below zero was asked at its reset instant and is falsy.
C27_Witness ==
    /\ out = Some(FALSE)
    /\ resp.remaining < 0
    /\ now = resp.reset_datetime

-----------------------------------------------------------------------------
(* Claims about the resolution of urls *)

\* The base configured followed by /api/<version>/ and the path of the url.
BaseThenApiThenPath ==
    [host |-> resp.base.host, lead |-> FALSE,
     path |-> resp.base.path \o <<"api", resp.api_version>> \o resp.url.path,
     query |-> resp.url.query]

\* C28: a relative path resolves to the configured base followed by
\* /api/<version>/ and the path, with or without a leading slash; an absolute
\* url is returned unchanged when no vars are given.
C28_UrlResolution ==
    ~IsNone(out) =>
        IF resp.url.host = ""
        THEN /\ out[1].host = BaseThenApiThenPath.host
             /\ out[1].path = BaseThenApiThenPath.path
             /\ resp.params = EmptyMap => out[1] = BaseThenApiThenPath
        ELSE resp.params = EmptyMap => out[1] = resp.url

-----------------------------------------------------------------------------
(* Claims about concurrent requests of one client *)

\* The entry line 130 of _make_request builds from a response.
EntryOf(response) ==
    CacheEntry(Get(response.headers, "etag"), Get(response.headers, "last-modified"),
               decode_body(Get(response.headers, "content-type"), response.body,
                           FALSE).value,
               next_link(Get(response.headers, "link")))

\* The request of task t is cache-eligible.
Eligible(t) == ~IsNone(frame[t].rq) /\ frame[t].rq[1].cacheable

\* The request of task t found no entry for its url.
Missed(t) == Eligible(t) /\ ~frame[t].rq[1].cached

\* Task t wrote the cache when its response was processed.
Wrote(t) == frame[t].pc = "returned" /\ frame[t].writes = 1

\* In this step the response of task t is processed and the cache written.
WriteStep(t) ==
    /\ frame[t].pc = "awaiting"
    /\ frame'[t].pc = "returned"
    /\ frame'[t].writes = 1

\* The entry of "/fake" is absent, the one the cache was created with, or the
\* whole tuple of the response of a task that wrote.
OneResponseEntry ==
    Url1 \in DOMAIN cache[1] =>
        \/ cache[1][Url1] = CacheEntry(Some("e1"), None, JInt(7), None)
        \/ \E t \in Tasks : Wrote(t) /\ cache[1][Url1] = EntryOf(frame[t].response[1])

\* The cache changes only when a response is processed and written, and
\* the entry is then the tuple of that response.
LastProcessedWins ==
    /\ \A t \in Tasks : WriteStep(t) => cache'[1][Url1] = EntryOf(frame'[t].response[1])
    /\ cache' # cache => \E t \in Tasks : WriteStep(t)

\* C29: two concurrent cache-eligible GETs of one client for the same url may
\* both miss and both write; the entry of the url is at every moment absent
\* or the complete tuple (etag, last-modified, payload, next page) of one
\* single response, and once both requests ended it is the tuple of the
\* response processed last.
C29_LastWriteWinsWhole == []OneResponseEntry /\ [][LastProcessedWins]_vars

\* Both tasks missed, both wrote, their responses differ, and the entry is
\* the tuple of the second response.
C29_Witness ==
    /\ Missed(1) /\ Missed(2)
    /\ Wrote(1) /\ Wrote(2)
    /\ EntryOf(frame[1].response[1]) # EntryOf(frame[2].response[1])
    /\ cache[1][Url1] = EntryOf(frame[2].response[1])
    /\ ~IsNone(cache[1][Url1].more)

\* In this step task t leaves "await self._request(...)" with a response.
ResponseStep(t) ==
    /\ frame[t].pc = "awaiting"
    /\ frame'[t].pc \in {"returned", "raised"}
    /\ ~IsNone(frame'[t].response)

\* The cache operations of the request of task t so far.
OneReadOneWrite(t) ==
    IF Eligible(t)
    THEN /\ frame[t].reads = 1
         /\ frame[t].writes \in {0, 1}
         /\ frame[t].pc = "awaiting" => frame[t].writes = 0
         /\ frame[t].rq[1].cached =>
               frame[t].rq[1].entry = Some(frame[t].cache_before[1][Url1])
         /\ (frame[t].pc = "returned" /\ frame[t].rq[1].cached
                /\ frame[t].response[1].status = 304) =>
               /\ frame[t].result[1].data = frame[t].cache_before[1][Url1].data
               /\ frame[t].result[1].more = frame[t].cache_before[1][Url1].more
    ELSE frame[t].reads = 0 /\ frame[t].writes = 0

\* The cache is written only in the step that processes the response of a
\* cache-eligible request, and only for the url of that request.
WritesOnlyAfterExchange ==
    cache' # cache =>
        \E t \in Tasks :
            /\ ResponseStep(t)
            /\ Eligible(t)
            /\ frame'[t].writes = 1
            /\ \A u \in DOMAIN cache[1] \ {frame[t].rq[1].filled_url} :
                  u \in DOMAIN cache'[1] /\ cache'[1][u] = cache[1][u]

\* C30: a cache-eligible request reads the cache once, before its exchange
\* starts, and writes it at most once, after the exchange returned; it
\* touches the cache at no other point, whatever the other requests of the
\* client do in between.
C30_OneReadAtMostOneWrite ==
    [](\A t \in Tasks : OneReadOneWrite(t)) /\ [][WritesOnlyAfterExchange]_vars

\* Task 1 read an entry, task 2 replaced it while task 1 was waiting, and
\* task 1, answered 304, returned what it had read.
C30_Witness ==
    /\ Eligible(1) /\ frame[1].rq[1].cached
    /\ frame[1].pc = "returned"
    /\ frame[1].response[1].status = 304
    /\ Wrote(2)
    /\ cache[1][Url1] # frame[1].cache_before[1][Url1]
    /\ frame[1].result[1].data = JInt(7)

-----------------------------------------------------------------------------
(* Claims about a 304 that answers no conditional request *)

\* The call was answered 304 and had read no cache entry.
Unexpected304 ==
    /\ Answered
    /\ F.response[1].status = 304
    /\ ~Rq.cached

\* C31: a 304 that answers a request which read no cache entry (no cache, a
\* miss, or a request that is not cache-eligible) is no cache hit: the call
\* raises RedirectionException of status 304, returns no data and leaves the
\* cache as it was.
C31_Unexpected304Raises ==
    Unexpected304 =>
        /\ F.pc = "raised"
        /\ F.result[1].kind = "raise"
        /\ F.result[1].exc = "RedirectionException"
        /\ F.result[1].status = 304
        /\ cache = F.cache_before

\* A cache-eligible GET missed the cache and was answered 304 with an etag.
C31_Witness ==
    /\ Unexpected304
    /\ Rq.cacheable
    /\ "etag" \in DOMAIN F.response[1].headers
    /\ F.pc = "raised"

-----------------------------------------------------------------------------
(* Claims about the optimistic decrement *)

\* The snapshot rl with one request less remaining, None when there is none.
OneLess(rl, before) ==
    IF IsNone(before)
    THEN IsNone(rl)
    ELSE /\ ~IsNone(rl)
         /\ rl[1].remaining = before[1].remaining - 1
         /\ rl[1].limit = before[1].limit
         /\ rl[1].reset_datetime = before[1].reset_datetime

\* While the exchange is in flight the snapshot is the one held before the
\* call with remaining one less, and there is none when none was held.
DecrementedBeforeExchange ==
    F.pc = "awaiting" => OneLess(rate_limit, F.rate_before) /\ F.rate_sent = rate_limit

\* C32 as stated: the snapshot held from a prior call is decremented by one
\* before the exchange starts, none is created when none is held, and the
\* response of the request corrects the decremented value: the snapshot is
\* then the one of the response.
C32_DecrementCorrectedByResponse ==
    /\ DecrementedBeforeExchange
    /\ Answered => rate_limit = RateLimitFromHttp(F.response[1].headers)

\* C32 as amended: the decrement as stated; a response deciphered as a
\* success replaces the snapshot by the one of its headers (none when they
\* carry no rate limit), while a 304 cache hit or a response raised as an
\* error leaves the decremented snapshot in place.
C32_DecrementCorrectedBySuccess ==
    /\ DecrementedBeforeExchange
    /\ (Answered /\ SuccessResponse) =>
          rate_limit = RateLimitFromHttp(F.response[1].headers)
    /\ (Answered /\ ~SuccessResponse) => OneLess(rate_limit, F.rate_before)

\* A second request is in flight: the snapshot of the first response was
\* decremented from 1 to 0.
C32_Witness ==
    /\ F.pc = "awaiting"
    /\ ~IsNone(F.rate_before)
    /\ F.rate_before[1].remaining = 1
    /\ rate_limit[1].remaining = 0

-----------------------------------------------------------------------------
(* Claims about the message of a raised error *)

\* The exception types of the HTTPException family.
HTTPErrors ==
    {"HTTPException", "RedirectionException", "BadRequest", "RateLimitExceeded",
     "InvalidField", "GitLabBroken"}

\* decipher_response raised an HTTP error for the response.
RaisedHTTP ==
    /\ ~IsNone(out)
    /\ out[1].kind = "raise"
    /\ out[1].exc \in HTTPErrors

\* The message the statement gives the error of the response.
StatedMessage ==
    LET message == MessageOf(DecodedData)
    IN  IF ~IsNone(message)
        THEN message[1]
        ELSE IF out[1].exc = "RateLimitExceeded"
        THEN JStr("rate limit exceeded")
        ELSE Phrase(resp.status)

\* C33: every HTTP error raised by decipher_response has as its message the
\* message value of the body when the body is a JSON object with a message
\* key, and otherwise the standard phrase of the status code, or 'rate limit
\* exceeded' for RateLimitExceeded.
C33_MessageFromBodyOrPhrase ==
    RaisedHTTP => out[1].args = <<StatedMessage>>

-----------------------------------------------------------------------------
(* Claims about the router of the bot *)

\* The step is one call of register_routers.
RegisterRoutersStep ==
    /\ registered' = registered + 1
    /\ added'.func = "register_routers"

\* The lists of callbacks of a router, as the tables hold them.
BotTables == <<shallow_routes, deep_routes>>

\* C34: register_routers succeeds only while the bot has no router, and then
\* makes one; once the bot has a router, made by an earlier register_routers
\* or by a read of bot.router, register_routers raises TypeError and leaves
\* the router and its registrations as they are.
C34_RegisterRoutersOnlyWithoutRouter ==
    [][RegisterRoutersStep =>
          IF IsNone(built)
          THEN /\ added'.raised = ""
               /\ ~IsNone(built')
          ELSE /\ added'.raised = "TypeError"
               /\ built' = built
               /\ BotTables' = BotTables]_vars

\* register_routers raised on a bot whose router was made by the property
\* and holds a registration, while the routers it was given hold others.
C34_Witness ==
    /\ built = Some(<< >>)
    /\ shallow_routes # EmptyMap
    /\ added = RegisterRoutersCalled("TypeError")
    /\ others[1] # EmptyRouter

-----------------------------------------------------------------------------
(* Claims about the cache of the bot *)

\* What the mapping of the caller holds.
CallerCache == IF supplied.used THEN cache[1] ELSE supplied.apart

\* The request of the webhook in progress found the entry the cache of the
\* bot holds for its url.
SeesEntries ==
    (F.pc = "awaiting" /\ Rq.filled_url \in DOMAIN F.cache_before[1]) => Rq.cached

\* C35: the bot uses the caller's cache object whenever a cache argument is
\* given, also one that is still empty, and its own LRU cache only when none
\* is given; the one cache is handed to the client of every webhook
\* request, so an entry written while one webhook is handled is seen while
\* the next is handled.
C35_SuppliedCacheUsedAndShared ==
    /\ supplied.used = supplied.given
    /\ supplied.given => CallerCache = cache[1]
    /\ SeesEntries

\* What holds of the cache of the bot: it is the caller's object only when
\* one was given, and its entries are seen by later webhook requests.
BotCacheShared ==
    /\ supplied.used => supplied.given
    /\ SeesEntries

-----------------------------------------------------------------------------
(* Claims about the order of the checks of from_http *)

\* The failure of the validation the token header and the secret call for.
TokenFailure ==
    IF HasToken /\ IsNone(hook.secret)
    THEN ValidationFailure("secret not provided")
    ELSE IF HasToken
    THEN ValidationFailure("invalid secret")
    ELSE ValidationFailure("x-gitlab-token is missing")

\* C36: from_http validates the token before it decodes the body: a request
\* that fails the validation, also one whose content type is missing or not
\* accepted or whose body does not decode, raises ValidationFailure and never
\* BadRequest; the failure is the one of the token alone, whatever the
\* content type and the body, which is not decoded.
C36_ValidationBeforeDecoding ==
    (~IsNone(produced) /\ ~ValidationPasses) =>
        /\ produced[1] = TokenFailure
        /\ ~FromHttpRaised("BadRequest")

\* A request with a bad token, a content type that is not accepted and a body
\* that is no JSON was refused for its token.
C36_Witness ==
    /\ ~IsNone(produced)
    /\ HasToken
    /\ ~ValidationPasses
    /\ ~AcceptedContentType
    /\ "content-type" \in DOMAIN hook.headers
    /\ hook.body[1] = "text"
    /\ FromHttpRaised("ValidationFailure")

-----------------------------------------------------------------------------
(* Claims about a cache hit whose entry changed in flight *)

\* In this step task t, which had read an entry, is answered 304.
CacheHitStep(t) ==
    /\ ResponseStep(t)
    /\ frame[t].rq[1].cached
    /\ frame'[t].response[1].status = 304

\* The entry the request of task t read when it was built.
ReadAtBuild(t) == frame[t].cache_before[1][frame[t].rq[1].filled_url]

\* The step of a cache hit returns what was read at build and leaves the
\* cache as it finds it.
HitReturnsWhatWasRead ==
    \A t \in Tasks :
        CacheHitStep(t) =>
            /\ frame'[t].pc = "returned"
            /\ frame'[t].result[1].kind = "return"
            /\ frame'[t].result[1].data = ReadAtBuild(t).data
            /\ frame'[t].result[1].more = ReadAtBuild(t).more
            /\ cache' = cache

\* C37: a 304 cache hit returns the payload and the next-page url the
\* request read from the cache when it was built, also when a concurrent
\* request overwrote the entry of the url or the cache dropped it while the
\* exchange was in flight; the step neither reads the entry again nor puts
\* it back.
C37_HitReturnsEntryReadAtBuild == [][HitReturnsWhatWasRead]_vars

\* Task 1 read the entry, the cache dropped it while task 1 was waiting, and
\* task 1, answered 304, returned the payload it had read; the entry is
\* still gone.
C37_Witness ==
    /\ Eligible(1) /\ frame[1].rq[1].cached
    /\ frame[1].pc = "returned"
    /\ frame[1].response[1].status = 304
    /\ frame[1].result[1].data = JInt(7)
    /\ Url1 \notin DOMAIN cache[1]
    /\ frame[2].pc = "idle"

-----------------------------------------------------------------------------
(* Claims about the snapshot over requests that bring no new one *)

\* The count of the requests sent since the snapshot was taken.
Spent == ncalls

\* C38: the decrement is made for every request and does not stop at zero,
\* and a 304 cache hit or a response raised as an HTTP error does not
\* replace the snapshot: after a snapshot with remaining r, k requests in a
\* row that end so leave the snapshot with remaining r - k, below zero too,
\* its limit and its reset instant as they were.
C38_SnapshotSpentNotReplaced ==
    rate_limit =
        Some([limit |-> resp.headers["ratelimit-limit"],
              remaining |-> resp.headers["ratelimit-remaining"] - Spent,
              reset_datetime |-> resp.headers["ratelimit-reset"]])

\* Two requests ended since a snapshot with remaining 1, the last one a 304
\* cache hit: the remaining is -1.
C38_Witness ==
    /\ Spent = 2
    /\ resp.headers["ratelimit-remaining"] = 1
    /\ F.pc = "returned"
    /\ F.response[1].status = 304
    /\ Rq.cached
    /\ rate_limit[1].remaining = -1

-----------------------------------------------------------------------------
(* Claims about registrations made while a dispatch is suspended *)

\* The callbacks of the dispatch in progress stay the ones collected at its
\* start, and those invoked so far are the first of them.
FoundIsFixed ==
    /\ dispatch.pc = "in_callback" => dispatch'.found = dispatch.found
    /\ dispatch'.pc \in {"in_callback", "returned", "raised"} =>
          dispatch'.invoked = SubSeq(dispatch'.found, 1, Len(dispatch'.invoked))
    /\ dispatch'.pc = "returned" => dispatch'.invoked = dispatch'.found

\* A dispatch that starts collects from the tables as they are then, the
\* registrations made during earlier dispatches included.
LaterDispatchSeesAll ==
    (dispatch.pc # "in_callback" /\ dispatch' # dispatch) =>
        dispatch'.found = FoundCallbacks(shallow_routes, deep_routes, dispatch'.event)

\* No step of a dispatch changes the tables.
DispatchKeepsTables ==
    dispatch' # dispatch => UNCHANGED <<shallow_routes, deep_routes>>

\* C39: the callbacks a dispatch invokes are fixed before its first callback
\* is started: a callback registered while the dispatch is suspended in a
\* callback is not invoked by it, and is invoked by every later dispatch of
\* a matching event; dispatch never changes the shallow or the deep table.
C39_FoundFixedBeforeFirstCallback ==
    [][FoundIsFixed /\ LaterDispatchSeesAll /\ DispatchKeepsTables]_vars

\* The dispatch is suspended in the last callback it collected, and the
\* tables now hold one more callback for its event, registered meanwhile.
C39_Witness ==
    /\ dispatch.pc = "in_callback"
    /\ dispatch.idx = Len(dispatch.found)
    /\ Len(FoundCallbacks(shallow_routes, deep_routes, dispatch.event))
          > Len(dispatch.found)

-----------------------------------------------------------------------------
(* Claims about a success that carries no validator *)

\* The call was a cache-eligible GET answered by a success whose headers
\* hold neither etag nor last-modified.
SuccessWithoutValidators ==
    /\ Answered
    /\ CacheEligible
    /\ SuccessResponse
    /\ "etag" \notin DOMAIN F.response[1].headers
    /\ "last-modified" \notin DOMAIN F.response[1].headers

\* C40: a cache-eligible GET whose success response carries neither etag
\* nor last-modified returns the payload decoded from that response and
\* writes nothing: an entry the cache holds for the url stays as it is,
\* neither refreshed nor removed, and a url without entry stays without.
C40_NoValidatorsNoWrite ==
    SuccessWithoutValidators =>
        /\ F.pc = "returned"
        /\ F.result[1].data =
              decode_body(Get(F.response[1].headers, "content-type"),
                          F.response[1].body, FALSE).value
        /\ cache = F.cache_before
        /\ F.writes = 0

\* A GET that had read the entry of "/fake" (payload 7) was answered 200
\* with the payload 42 and no validator: 42 is returned, the entry is the
\* old one.
C40_Witness ==
    /\ SuccessWithoutValidators
    /\ FoundEntry
    /\ F.result[1].data = JInt(42)
    /\ cache[1][Url1].data = JInt(7)

====
